---- MODULE Spec2Model ----
(***************************************************************************)
(* Region extraction of the dreamhouse backend.                            *)
(*                                                                         *)
(*   mask mode  : SegmentationService._filter_masks                        *)
(*                (backend/app/services/segmentation_service.py)           *)
(*   color mode : FurnitureDetectionPipeline.detect_rectangles_bfs         *)
(*                (pipeline/pipeline.py)                                   *)
(*   extraction : SegmentationService.extract_and_classify_furniture and   *)
(*                the two services that call it, as concurrent coroutines; *)
(*                a step is the code between two awaits                    *)
(*   /ai/llm    : the llm handler of backend/app/routers/ai.py             *)
(*                                                                         *)
(* Floats are modelled as exact rationals <<numerator, denominator>>; mask *)
(* values are tenths (5 is the value 0.5).  Pixels are <<x, y>>.           *)
(***************************************************************************)
EXTENDS Integers, Sequences, FiniteSets, TLC

VARIABLES
    modality,           \* what this run drives: "masks" (_filter_masks), "image"
                        \* (detect_rectangles_bfs), "extract" (extraction calls) or
                        \* "llm" (POST /ai/llm)
    masks,              \* mask mode input: sequence of soft masks
    max_size_ratio,     \* argument of _filter_masks (rational)
    overlap_threshold,  \* argument of _filter_masks (rational)
    mask_data,          \* local of the last _filter_masks call, after the sort
    to_keep,            \* local of the last _filter_masks call
    to_remove,          \* local of the last _filter_masks call (positions in mask_data, from 1)
    filter_result,      \* value returned by the last _filter_masks call (if filter_calls > 0)
    filter_prev,        \* value returned by the call before it (if filter_calls > 1)
    filter_calls,       \* number of _filter_masks calls made on this input
    image,              \* color mode input: BGR raster, a function of the pixels
    visited,            \* local of the last detect_rectangles_bfs call: the pixels marked
    regions,            \* the flood fills of the last call, in the order they were started
    rectangles,         \* value returned by the last detect_rectangles_bfs call
    rectangles_prev,    \* value returned by the call before it
    bfs_calls,          \* number of detect_rectangles_bfs calls made on this input
    requests,           \* extraction: the arguments of each call
    pc,                 \* extraction: where each call stands
    frame,              \* extraction: the locals of each call
    returned,           \* extraction: value returned by extract_and_classify_furniture
    frontend_objects,   \* extraction: value returned by the calling service
    error,              \* extraction: exception raised by each call
    model,              \* self.model of the SegmentationService of each service
    now,                \* the wall clock, in seconds
    debug_files,        \* files under classification_debug: path -> call that wrote it
    llm_request,        \* /ai/llm: the form fields
    llm_pc,             \* /ai/llm: where the handler stands
    llm_status,         \* /ai/llm: status code of the response, 0 before it
    image_list,         \* /ai/llm: number of images collected
    ai_calls,           \* /ai/llm: calls made to ai_service
    queue,              \* flood fill: the deque of the fill that is running
    scan_index,         \* flood fill: y * width + x of the two for loops
    fill_pc,            \* flood fill: "scan", "bfs" (inside while queue) or "done"
    fill_target,        \* flood fill: color of the seed of the fill that is running
    bounds,             \* flood fill: min_x, max_x, min_y, max_y of that fill
    appended,           \* flood fill: how often each pixel was put on a queue
    region_of,          \* flood fill: the fills that popped each pixel
    fills,              \* flood fill: number of fills started
    match_call,         \* matching: API key and what is on disk for the type
    match_pc,           \* matching: where the call stands
    match_answer,       \* matching: what messages.create gave
    match_result,       \* matching: value returned, <<num, den>>
    PROJECTS,           \* memory_store.PROJECTS
    PROJECTS_before,    \* PROJECTS as the handler that responded last found it
    in_flight,          \* requests waiting on an external service
    response,           \* the last response: endpoint, project id, status
    generated,          \* number of objects made by generate-object
    scenes_generated    \* projects for which POST /scene/generate responded 200

mask_vars == <<masks, max_size_ratio, overlap_threshold, mask_data, to_keep,
               to_remove, filter_result, filter_prev, filter_calls>>

bfs_vars == <<image, visited, regions, rectangles, rectangles_prev, bfs_calls>>

extract_vars == <<requests, pc, frame, returned, frontend_objects, error, model,
                  now, debug_files>>

llm_vars == <<llm_request, llm_pc, llm_status, image_list, ai_calls>>

fill_vars == <<queue, scan_index, fill_pc, fill_target, bounds, appended,
               region_of, fills>>

match_vars == <<match_call, match_pc, match_answer, match_result>>

store_vars == <<PROJECTS, PROJECTS_before, in_flight, response, generated,
                scenes_generated>>

vars == <<modality, mask_vars, bfs_vars, extract_vars, llm_vars, fill_vars,
          match_vars, store_vars>>

-----------------------------------------------------------------------------
(* Bounds of the model *)

\* image shape handed to _filter_masks
img_width == 2
img_height == 2
\* longest list of masks
MaxMasks == 3
\* calls made on one input
MaxCalls == 2
\* shape of the raster handed to detect_rectangles_bfs
width == 16
height == 14

-----------------------------------------------------------------------------
(* Helpers *)

SetMin(S) == CHOOSE m \in S : \A e \in S : m <= e
SetMax(S) == CHOOSE m \in S : \A e \in S : m >= e
Least(a, b) == IF a <= b THEN a ELSE b

\* a > b for rationals with positive denominators
RatGt(a, b) == a[1] * b[2] > b[1] * a[2]

-----------------------------------------------------------------------------
(* Mask mode inputs *)

MaskPixels == (0 .. img_width - 1) \X (0 .. img_height - 1)

\* the soft masks tried: 1.0 on one of these sets of pixels of the top-left
\* 2x2 window, 0.5 (at the threshold, so off) on the rest of the window, 0
\* elsewhere
Window2x2 == {<<0, 0>>, <<1, 0>>, <<0, 1>>, <<1, 1>>}
Shapes ==
    {{},
     {<<0, 0>>}, {<<1, 1>>},
     {<<0, 0>>, <<1, 0>>}, {<<1, 0>>, <<1, 1>>}, {<<0, 1>>, <<1, 1>>},
     {<<0, 0>>, <<1, 1>>},
     {<<0, 0>>, <<1, 0>>, <<0, 1>>}, {<<1, 0>>, <<0, 1>>, <<1, 1>>},
     Window2x2}
SoftMask(S) ==
    [p \in MaskPixels |-> IF p \in S THEN 10 ELSE IF p \in Window2x2 THEN 5 ELSE 0]
MaskInputs == {SoftMask(S) : S \in Shapes}

\* values of the two thresholds tried: the defaults, and two settings under
\* which no mask of the window is too large
Settings ==
    {[max_size_ratio |-> <<1, 2>>, overlap_threshold |-> <<1, 2>>],
     [max_size_ratio |-> <<1, 1>>, overlap_threshold |-> <<1, 2>>],
     [max_size_ratio |-> <<1, 1>>, overlap_threshold |-> <<1, 4>>]}

-----------------------------------------------------------------------------
(* _filter_masks *)

\* The masks have the shape of the image, as _segment_image produces them
\* (retina_masks=True), so the cv2.resize branch is not taken.

MaskAtLeastHalf(mask) == {p \in MaskPixels : mask[p] >= 5}

\* mask_bool = mask_np > 0.5
mask_bool(mask) == {p \in MaskPixels : mask[p] > 5}

\* width and height of the bounding box of the thresholded pixels
bbox_width(mb) == SetMax({p[1] : p \in mb}) - SetMin({p[1] : p \in mb}) + 1
bbox_height(mb) == SetMax({p[2] : p \in mb}) - SetMin({p[2] : p \in mb}) + 1

TooLargeBoth(mb, msr) ==
    /\ RatGt(<<bbox_width(mb), img_width>>, msr)
    /\ RatGt(<<bbox_height(mb), img_height>>, msr)

\* width_ratio > max_size_ratio or height_ratio > max_size_ratio
TooLarge(mb, msr) ==
    \/ RatGt(<<bbox_width(mb), img_width>>, msr)
    \/ RatGt(<<bbox_height(mb), img_height>>, msr)

\* the first loop: one entry per mask that is non-empty after thresholding and
\* passes the size check, in index order (indices from 0)
BuildMaskData(ms, msr) ==
    LET all == [i \in 1 .. Len(ms) |->
                   [index |-> i - 1,
                    mask |-> mask_bool(ms[i]),
                    area |-> Cardinality(mask_bool(ms[i]))]]
    IN  SelectSeq(all, LAMBDA d : d.mask # {} /\ ~TooLarge(d.mask, msr))

InsertBeforeTies(sorted, d) ==
    LET k == Cardinality({i \in 1 .. Len(sorted) : sorted[i].area > d.area})
    IN  SubSeq(sorted, 1, k) \o <<d>> \o SubSeq(sorted, k + 1, Len(sorted))

\* place d behind every entry of at least its area (the sort is stable)
InsertByArea(sorted, d) ==
    LET k == Cardinality({i \in 1 .. Len(sorted) : sorted[i].area >= d.area})
    IN  SubSeq(sorted, 1, k) \o <<d>> \o SubSeq(sorted, k + 1, Len(sorted))

RECURSIVE SortPrefix(_, _)
SortPrefix(md, n) ==
    IF n = 0 THEN <<>> ELSE InsertByArea(SortPrefix(md, n - 1), md[n])

\* mask_data.sort(key=area, reverse=True)
SortByAreaDesc(md) == SortPrefix(md, Len(md))

OverlapOfLarger(mask1, mask2) ==
    LET area == IF Cardinality(mask1) >= Cardinality(mask2)
                THEN Cardinality(mask1) ELSE Cardinality(mask2)
    IN  IF area > 0 THEN <<Cardinality(mask1 \cap mask2), area>> ELSE <<0, 1>>

_calculate_mask_overlap(mask1, mask2) ==
    LET intersection_area == Cardinality(mask1 \cap mask2)
        smaller_area == Least(Cardinality(mask1), Cardinality(mask2))
    IN  IF smaller_area > 0 THEN <<intersection_area, smaller_area>> ELSE <<0, 1>>

\* overlap > overlap_threshold
Exceeds(overlap, thr) == RatGt(overlap, thr)

\* for j in range(i + 1, len(mask_data))
RECURSIVE InnerLoop(_, _, _, _, _)
InnerLoop(md, i, j, rem, thr) ==
    IF j > Len(md) THEN rem
    ELSE IF j \in rem THEN InnerLoop(md, i, j + 1, rem, thr)
    ELSE IF Exceeds(_calculate_mask_overlap(md[i].mask, md[j].mask), thr)
         THEN InnerLoop(md, i, j + 1, rem \cup {j}, thr)
         ELSE InnerLoop(md, i, j + 1, rem, thr)

SecondAfter(i) == i + 2

\* the inner loop starts at range(i + 1, ...)
FirstCompared(i) == i + 1

RemovedNever(i, rem) == FALSE

\* if i in to_remove: continue
AlreadyRemoved(i, rem) == i \in rem

\* for i in range(len(mask_data))
RECURSIVE OuterLoop(_, _, _, _, _)
OuterLoop(md, i, keep, rem, thr) ==
    IF i > Len(md) THEN [to_keep |-> keep, to_remove |-> rem]
    ELSE IF AlreadyRemoved(i, rem) THEN OuterLoop(md, i + 1, keep, rem, thr)
    ELSE OuterLoop(md, i + 1, Append(keep, md[i].index),
                   InnerLoop(md, i, FirstCompared(i), rem, thr), thr)

AsProcessed(s) == s

\* sorted(to_keep)
RECURSIVE SortedAsc(_)
SortedAsc(s) ==
    IF Len(s) = 0 THEN <<>>
    ELSE LET m == SetMin({s[i] : i \in 1 .. Len(s)})
             k == SetMin({i \in 1 .. Len(s) : s[i] = m})
         IN  <<m>> \o SortedAsc(SubSeq(s, 1, k - 1) \o SubSeq(s, k + 1, Len(s)))

StaleToKeep == to_keep

\* to_keep = []
NewToKeep == <<>>

\* to_remove = set()
NewToRemove == {}

FilterMasksCall ==
    /\ modality = "masks"
    /\ filter_calls < MaxCalls
    /\ \E md \in {SortByAreaDesc(BuildMaskData(masks, max_size_ratio))} :
       \E out \in {IF Len(masks) = 0
                   THEN [to_keep |-> <<>>, to_remove |-> {}]
                   ELSE OuterLoop(md, 1, NewToKeep, NewToRemove, overlap_threshold)} :
           /\ mask_data' = (IF Len(masks) = 0 THEN mask_data ELSE md)
           /\ to_keep' = (IF Len(masks) = 0 THEN to_keep ELSE out.to_keep)
           /\ to_remove' = (IF Len(masks) = 0 THEN to_remove ELSE out.to_remove)
           /\ filter_result' = SortedAsc(out.to_keep)
    /\ filter_prev' = filter_result
    /\ filter_calls' = filter_calls + 1
    /\ UNCHANGED <<modality, fill_vars, match_vars, store_vars,
                   masks, max_size_ratio, overlap_threshold, bfs_vars,
                   extract_vars, llm_vars>>

-----------------------------------------------------------------------------
(* Color mode inputs *)

Pixels == (0 .. width - 1) \X (0 .. height - 1)

\* colors as <<r, g, b>>
White == <<255, 255, 255>>
Black == <<0, 0, 0>>
Gray == <<100, 120, 160>>
Red == <<255, 0, 0>>
NearRed == <<240, 10, 10>>
EdgeRed == <<230, 15, 10>>
FarRed == <<225, 20, 20>>
Blue == <<0, 0, 255>>
Mauve == <<100, 100, 175>>
Dusk == <<100, 100, 170>>

\* the raster is stored in OpenCV's channel order
ToBGR(c) == <<c[3], c[2], c[1]>>

\* a scene: a background color and blocks [x, y, w, h, c] painted over it in
\* order, clipped to the raster
InBlock(p, b) ==
    /\ b.x <= p[1] /\ p[1] < b.x + b.w
    /\ b.y <= p[2] /\ p[2] < b.y + b.h

RECURSIVE TopColor(_, _, _, _)
TopColor(p, bg, blocks, n) ==
    IF n = 0 THEN bg
    ELSE IF InBlock(p, blocks[n]) THEN blocks[n].c
    ELSE TopColor(p, bg, blocks, n - 1)

Paint(bg, blocks) == [p \in Pixels |-> ToBGR(TopColor(p, bg, blocks, Len(blocks)))]

Block(x, y, w, h, c) == [x |-> x, y |-> y, w |-> w, h |-> h, c |-> c]

\* rasters of background colors only
BackgroundColors == {White, Black, Gray, Dusk}
BackgroundScenes ==
    {Paint(bg, <<>>) : bg \in BackgroundColors}
    \cup {Paint(bg, <<Block(x, 1, w, 12, c)>>) :
            bg \in BackgroundColors, c \in BackgroundColors, x \in {0, 3}, w \in {1, 12}}

\* one solid block, 10 to 13 pixels a side
OneBlockScenes ==
    {Paint(bg, <<Block(x, 1, w, h, c)>>) :
        bg \in {White, Black, Dusk}, x \in {0, 2},
        w \in 10 .. 13, h \in 10 .. 13, c \in {Red, Mauve}}

\* a red block and a second block to its right, below it or diagonally below
\* it, with gap pixels of background between the two
Directions == {<<1, 0>>, <<0, 1>>, <<1, 1>>}
TwoBlockScenes ==
    {Paint(bg, <<Block(o, o, w, h, Red),
                 Block(o + d[1] * (w + gap), o + d[2] * (h + gap), w, h, c)>>) :
        bg \in {White, NearRed}, o \in {0, 1}, w \in {1, 4}, h \in {4, 12},
        d \in Directions, gap \in {0, 4, 5},
        c \in {Red, NearRed, EdgeRed, FarRed, Blue}}

\* a block that passes the size filter, painted over a colored ground
NestedScenes ==
    {Paint(bg, <<Block(x, 1, 12, 12, c)>>) :
        bg \in {Red, NearRed}, x \in {0, 2}, c \in {Blue, EdgeRed, Mauve}}

ImageInputs == BackgroundScenes \cup OneBlockScenes \cup TwoBlockScenes \cup NestedScenes

\* the scenes of ImageInputs that are followed one loop iteration at a time
FillInputs ==
    NestedScenes
    \cup {Paint(bg, <<>>) : bg \in {White, Red}}
    \cup {Paint(White, <<Block(x, 1, w, 12, c)>>) :
            x \in {0, 2}, w \in {10, 12}, c \in {Red, Mauve}}
    \cup {Paint(bg, <<Block(0, 0, 4, h, Red),
                      Block(d[1] * (4 + gap), d[2] * (h + gap), 4, h, c)>>) :
            bg \in {White, NearRed}, h \in {4, 12}, d \in Directions,
            gap \in {0, 5}, c \in {NearRed, FarRed, Blue}}

-----------------------------------------------------------------------------
(* detect_rectangles_bfs *)

rectangle_pixel_dist_lenience == 5
color_similarity_threshold == 50
grayscale_variance_limit == 75
near_black_limit == 20
near_white_limit == 235
min_component_extent == 10

Abs(n) == IF n < 0 THEN -n ELSE n
Greatest(a, b) == IF a >= b THEN a ELSE b

bgr_image(img, p) == img[p]

\* cv2.cvtColor(image, cv2.COLOR_BGR2RGB)
rgb_image(img, p) == <<img[p][3], img[p][2], img[p][1]>>

rgb_variance(c) ==
    Greatest(Abs(c[1] - c[2]), Greatest(Abs(c[2] - c[3]), Abs(c[1] - c[3])))

IsGrayscaleWithin15(c) == rgb_variance(c) < 15

\* is_grayscale = rgb_variance < 75
is_grayscale(c) == rgb_variance(c) < grayscale_variance_limit
is_near_black(c) ==
    c[1] < near_black_limit /\ c[2] < near_black_limit /\ c[3] < near_black_limit
is_near_white(c) ==
    c[1] > near_white_limit /\ c[2] > near_white_limit /\ c[3] > near_white_limit

SkippedBlackOrWhite(c) == is_near_black(c) \/ is_near_white(c)

\* if is_grayscale or is_near_black or is_near_white: continue
Skipped(c) == is_grayscale(c) \/ is_near_black(c) \/ is_near_white(c)

color_diff(c, target_color) ==
    Abs(c[1] - target_color[1]) + Abs(c[2] - target_color[2])
        + Abs(c[3] - target_color[3])

SimilarOrAtThreshold(c, target_color) ==
    Abs(c[1] - target_color[1]) + Abs(c[2] - target_color[2])
        + Abs(c[3] - target_color[3]) <= 50

\* color_diff < color_similarity_threshold
SimilarColor(c, target_color) == color_diff(c, target_color) < color_similarity_threshold

WindowAdjacent(curr) == (curr[1] - 1 .. curr[1] + 1) \X (curr[2] - 1 .. curr[2] + 1)

\* the pixels nx, ny with |nx - curr_x| <= 5 and |ny - curr_y| <= 5
Window(curr) ==
    (curr[1] - rectangle_pixel_dist_lenience .. curr[1] + rectangle_pixel_dist_lenience)
        \X (curr[2] - rectangle_pixel_dist_lenience .. curr[2] + rectangle_pixel_dist_lenience)

\* The queue is first in, first out, so the while loop works through the fill
\* level by level.  st.queue is one level: the pixels in the queue when the
\* level before it has been popped.  One step pops them all: it widens the
\* bounds by each, and marks and enqueues every unvisited pixel in the window
\* of one of them whose color is similar to the seed's.  similar is the set of
\* pixels with color_diff < color_similarity_threshold against target_color.
BfsStep(similar, st) ==
    LET open == {n \in similar : n \notin st.visited}
        found == {n \in open : \E curr \in st.queue : n \in Window(curr)}
    IN  [queue |-> found,
         visited |-> st.visited \cup found,
         pixels |-> st.pixels \cup found,
         min_x |-> Least(st.min_x, SetMin({curr[1] : curr \in st.queue})),
         max_x |-> Greatest(st.max_x, SetMax({curr[1] : curr \in st.queue})),
         min_y |-> Least(st.min_y, SetMin({curr[2] : curr \in st.queue})),
         max_y |-> Greatest(st.max_y, SetMax({curr[2] : curr \in st.queue}))]

\* while queue
RECURSIVE Bfs(_, _)
Bfs(similar, st) ==
    IF st.queue = {} THEN st
    ELSE LET next == CHOOSE s \in {BfsStep(similar, st)} : TRUE
         IN  Bfs(similar, next)

AtLeastTen(st) == st.max_x - st.min_x >= 10 /\ st.max_y - st.min_y >= 10

\* (max_x - min_x) > 10 and (max_y - min_y) > 10
LargeEnough(st) ==
    /\ st.max_x - st.min_x > min_component_extent
    /\ st.max_y - st.min_y > min_component_extent

RasterIndex(p) == p[2] * width + p[1]

SeededAfresh(p, acc) ==
    [queue |-> {p}, visited |-> {p}, pixels |-> {p},
     min_x |-> p[1], max_x |-> p[1], min_y |-> p[2], max_y |-> p[2]]

\* queue = deque([(x, y)]); visited[y, x] = True; the bounds start at the seed.
\* visited is the one array of the call: it holds the pixels of earlier fills.
Seeded(p, acc) ==
    [queue |-> {p}, visited |-> acc.visited \cup {p}, pixels |-> {p},
     min_x |-> p[1], max_x |-> p[1], min_y |-> p[2], max_y |-> p[2]]

\* the flood fill started at pixel p, and what is appended for it
Fill(img, p, acc) ==
    LET target_color == rgb_image(img, p)
        similar == CHOOSE s \in {{n \in Pixels :
                       SimilarColor(rgb_image(img, n), target_color)}} : TRUE
        st == CHOOSE s \in {Bfs(similar, Seeded(p, acc))} : TRUE
        rect == <<st.min_x, st.min_y, st.max_x - st.min_x, st.max_y - st.min_y,
                  target_color>>
    IN  [visited |-> acc.visited \cup st.visited,
         rectangles |-> IF LargeEnough(st) THEN Append(acc.rectangles, rect)
                        ELSE acc.rectangles,
         regions |-> Append(acc.regions,
             [seed |-> p, target_color |-> target_color, pixels |-> st.pixels,
              min_x |-> st.min_x, max_x |-> st.max_x,
              min_y |-> st.min_y, max_y |-> st.max_y,
              reported |-> LargeEnough(st)])]

\* the two for loops over y and x: the scan passes over visited and skipped
\* pixels and starts a flood fill at the first pixel that is neither
RECURSIVE Scan(_, _, _)
Scan(img, colored, acc) ==
    LET seeds == {q \in colored : q \notin acc.visited}
    IN  IF seeds = {} THEN acc
        ELSE LET p == CHOOSE q \in seeds :
                          \A o \in seeds : RasterIndex(q) <= RasterIndex(o)
                 next == CHOOSE a \in {Fill(img, p, acc)} : TRUE
             IN  Scan(img, colored, next)

\* the pixels the scan does not skip for their color
Colored(img) == {p \in Pixels : ~Skipped(rgb_image(img, p))}

detect_rectangles_bfs(img, visited0) ==
    Scan(img, Colored(img), [visited |-> visited0, rectangles |-> <<>>, regions |-> <<>>])

\* visited = np.zeros((height, width), dtype=bool)
NewVisited == {}

DetectRectanglesCall ==
    /\ modality = "image"
    /\ bfs_calls < MaxCalls
    /\ \E out \in {detect_rectangles_bfs(image, NewVisited)} :
           /\ visited' = out.visited
           /\ regions' = out.regions
           /\ rectangles' = out.rectangles
    /\ rectangles_prev' = rectangles
    /\ bfs_calls' = bfs_calls + 1
    /\ UNCHANGED <<modality, fill_vars, match_vars, store_vars,
                   image, mask_vars, extract_vars, llm_vars>>

-----------------------------------------------------------------------------
(* Extraction inputs *)

\* the two extract_and_classify_furniture calls in flight at once
Calls == {1, 2}
\* seconds the wall clock advances while they run
MaxClock == 1
\* product variations found on disk for a furniture type
NumVariations == 2
\* files uploaded with one /ai/llm request
MaxUploads == 1

\* bounding box <<x1, y1, x2, y2>> of a non-empty set of pixels
Tight(S) ==
    <<SetMin({p[1] : p \in S}), SetMin({p[2] : p \in S}),
      SetMax({p[1] : p \in S}), SetMax({p[2] : p \in S})>>

\* a box of the segmentation model that spans the image
Whole == <<0, 0, img_width, img_height>>

\* image bytes are given by what they decode to and by what FastSAM returns
\* for them: soft masks, and boxes (none, the boxes of the masks, or boxes
\* that span the image)
Detection(shapes, kind) ==
    [decodable |-> TRUE,
     masks |-> [i \in 1 .. Len(shapes) |-> SoftMask(shapes[i])],
     has_boxes |-> kind # "none",
     boxes |-> IF kind = "none" THEN <<>>
               ELSE [i \in 1 .. Len(shapes) |->
                        IF kind = "tight" THEN Tight(shapes[i]) ELSE Whole]]

Garbage == [decodable |-> FALSE, masks |-> <<>>, has_boxes |-> FALSE, boxes |-> <<>>]

Images ==
    {Garbage,
     Detection(<<>>, "none"),
     Detection(<<{<<0, 0>>}>>, "none"),
     Detection(<<{<<0, 0>>}>>, "loose"),
     Detection(<<Window2x2>>, "none"),
     Detection(<<{<<0, 0>>}, {<<1, 1>>}>>, "tight"),
     Detection(<<{<<0, 0>>, <<1, 0>>}, {<<1, 1>>}>>, "none"),
     Detection(<<{<<0, 0>>}, {<<0, 0>>}, {<<1, 1>>}>>, "tight")}

\* the two frontend services call with the defaults; a direct caller of the
\* segmentation service passes its own thresholds
Services == {"furniture", "minglun", "segmentation"}
DefaultRequests ==
    {[service |-> s, image_bytes |-> img, max_size_ratio |-> <<1, 2>>,
      overlap_threshold |-> <<1, 2>>, save_debug_images |-> TRUE] :
        s \in {"furniture", "minglun"}, img \in Images}
DirectRequests ==
    {[service |-> "segmentation", image_bytes |-> img,
      max_size_ratio |-> cfg[1], overlap_threshold |-> cfg[2],
      save_debug_images |-> FALSE] :
        img \in {Detection(<<{<<0, 0>>}, {<<1, 1>>}>>, "tight"),
                 Detection(<<{<<0, 0>>}>>, "none"),
                 Detection(<<{}>>, "none")},
        cfg \in {<< <<1, 1>>, <<1, 2>> >>, << <<-1, 2>>, <<1, 2>> >>,
                 << <<1, 1>>, <<-1, 2>> >>}}
Requests == DefaultRequests \cup DirectRequests

\* what the calls made while the first one runs are given
Companions ==
    {r \in Requests :
        r.image_bytes \in {Garbage, Detection(<<{<<0, 0>>}>>, "none")}}

-----------------------------------------------------------------------------
(* SegmentationService.extract_and_classify_furniture and its callers *)

\* dict.get(key, default)
Get(d, k, default) == IF k \in DOMAIN d THEN d[k] ELSE default
EmptyDict == [k \in {} |-> 0]

DecodesAnything(image_bytes) == TRUE

\* image = cv2.imdecode(...); image is None for bytes that are no image
Decodes(image_bytes) == image_bytes.decodable

\* the whole of _filter_masks, as a function of its arguments
_filter_masks(ms, msr, thr) ==
    IF Len(ms) = 0 THEN <<>>
    ELSE SortedAsc(OuterLoop(SortByAreaDesc(BuildMaskData(ms, msr)), 1,
                             <<>>, {}, thr).to_keep)

\* the dict appended to detected_objects for mask i and box <<x1, y1, x2, y2>>
DetectedObject(n, i, idx, mb, box) ==
    [id |-> n,
     bbox_pixels |-> [x1 |-> box[1], y1 |-> box[2], x2 |-> box[3], y2 |-> box[4]],
     bbox_normalized |-> [x1 |-> <<box[1], img_width>>, y1 |-> <<box[2], img_height>>,
                          x2 |-> <<box[3], img_width>>, y2 |-> <<box[4], img_height>>],
     dimensions_normalized |-> [width |-> <<box[3] - box[1], img_width>>,
                                height |-> <<box[4] - box[2], img_height>>],
     area_pixels |-> Cardinality(mb),
     mask_index |-> i,
     filtered_index |-> idx]

\* for idx, i in enumerate(keep_indices): the box is the model's when it gave
\* one for index i, and is computed from the mask otherwise
RECURSIVE SegmentLoop(_, _, _, _)
SegmentLoop(img, keep_indices, idx, detected_objects) ==
    IF idx >= Len(keep_indices) THEN detected_objects
    ELSE LET i == keep_indices[idx + 1]
             mb == mask_bool(img.masks[i + 1])
             from_model == img.has_boxes /\ i < Len(img.boxes)
         IN  IF ~from_model /\ mb = {}
             THEN SegmentLoop(img, keep_indices, idx + 1, detected_objects)
             ELSE SegmentLoop(img, keep_indices, idx + 1,
                      Append(detected_objects,
                          DetectedObject(Len(detected_objects) + 1, i, idx, mb,
                              IF from_model THEN img.boxes[i + 1] ELSE Tight(mb))))

\* _segment_image with enable_filtering=True
_segment_image(img, msr, thr) ==
    LET keep_indices == IF Len(img.masks) > 0
                        THEN _filter_masks(img.masks, msr, thr)
                        ELSE <<>>
    IN  [keep_indices |-> keep_indices,
         detected_objects |-> SegmentLoop(img, keep_indices, 0, <<>>)]

\* one thresholded mask per mask of the results, kept or not
_reconstruct_masks(img) == [i \in 1 .. Len(img.masks) |-> mask_bool(img.masks[i])]

\* (crop, obj) for the objects that have a mask at their position in the list
ObjectImagesAndInfo(detected_objects, masks_bool, realistic_image) ==
    [i \in 1 .. Least(Len(detected_objects), Len(masks_bool)) |->
        [crop |-> [mask |-> masks_bool[i],
                   bbox_pixels |-> detected_objects[i].bbox_pixels,
                   image |-> realistic_image],
         obj |-> detected_objects[i]]]

\* the files of one call in directory debug_dir: the two floorplans, and a
\* highlighted image and a crop per object; a file that exists is overwritten
DebugPaths(debug_dir, n) ==
    {<<debug_dir, i, part>> : i \in 0 .. n, part \in {"a", "b"}}
WriteDebug(files, debug_dir, n, c) ==
    [p \in DOMAIN files \cup DebugPaths(debug_dir, n) |->
        IF p \in DebugPaths(debug_dir, n) THEN c ELSE files[p]]

Pending == [state |-> "pending"]

ErrorAsChair(object_number) ==
    [object_number |-> object_number, furniture_type |-> "chair",
     confidence |-> "error", reasoning |-> "Classification failed"]

\* what _classify_single_object_with_claude returns from its except branch
ErrorClassification(object_number) ==
    [object_number |-> object_number, furniture_type |-> "other",
     confidence |-> "error", reasoning |-> "Classification failed"]

ParsedUnnumbered(object_number, furniture_type) ==
    [object_number |-> 1, furniture_type |-> furniture_type,
     confidence |-> "high", reasoning |-> "seen", rotation |-> 90]

\* what it returns when the reply parses
ParsedClassification(object_number, furniture_type) ==
    [object_number |-> object_number, furniture_type |-> furniture_type,
     confidence |-> "high", reasoning |-> "seen", rotation |-> 90]

\* the end of _match_object_to_model_variation: the reply's index when it is
\* one of the variations, 0 otherwise and on any error
MatchedIndex(reply) ==
    IF reply.ok /\ 0 <= reply.best_match /\ reply.best_match < NumVariations
    THEN reply.best_match ELSE 0
MatchReplies ==
    {[ok |-> FALSE, best_match |-> 0]}
    \cup {[ok |-> TRUE, best_match |-> k] : k \in -1 .. NumVariations}

\* the dict appended to classified_objects
ClassifiedObject(obj, classification, model_index) ==
    [name |-> Get(classification, "furniture_type", "other"),
     model |-> model_index,
     position |-> [x |-> <<obj.bbox_normalized.x1[1] + obj.bbox_normalized.x2[1],
                           2 * img_width>>,
                   y |-> <<obj.bbox_normalized.y1[1] + obj.bbox_normalized.y2[1],
                           2 * img_height>>],
     dimensions |-> obj.dimensions_normalized,
     rotation |-> Get(classification, "rotation", 0),
     bbox_normalized |-> obj.bbox_normalized,
     bbox_pixels |-> obj.bbox_pixels]

\* the center of a normalized box, missing corners counting as 0
Center(bbox_norm, lo, hi, extent) ==
    <<Get(bbox_norm, lo, <<0, extent>>)[1] + Get(bbox_norm, hi, <<0, extent>>)[1],
      2 * extent>>

\* FurnitureExtractionService.extract_objects: the frontend object for obj
FurnitureFrontendObject(obj) ==
    LET classification == Get(obj, "classification", EmptyDict)
        bbox_norm == Get(obj, "bbox_normalized", EmptyDict)
        dims_norm == Get(obj, "dimensions_normalized", EmptyDict)
    IN  [id |-> <<"obj", Get(obj, "id", 0)>>,
         type |-> Get(classification, "furniture_id", "other"),
         name |-> Get(classification, "furniture_name", "Unknown"),
         position |-> [x |-> Center(bbox_norm, "x1", "x2", img_width),
                       y |-> Center(bbox_norm, "y1", "y2", img_height)],
         dimensions |-> [width |-> Get(dims_norm, "width", <<0, 1>>),
                         height |-> Get(dims_norm, "height", <<0, 1>>)],
         bbox_normalized |-> bbox_norm,
         bbox_pixels |-> Get(obj, "bbox_pixels", EmptyDict),
         confidence |-> Get(classification, "confidence", "unknown")]

\* MingLunService.extract_objects: the frontend object for obj at position i
MingLunFrontendObject(i, obj) ==
    [id |-> <<"obj", i>>,
     type |-> Get(obj, "name", "other"),
     name |-> Get(obj, "name", "other"),
     model |-> Get(obj, "model", 0),
     position |-> obj.position,
     dimensions |-> obj.dimensions,
     rotation |-> Get(obj, "rotation", 0),
     bbox_normalized |-> Get(obj, "bbox_normalized", EmptyDict),
     bbox_pixels |-> Get(obj, "bbox_pixels", EmptyDict)]

\* what the caller of extract_and_classify_furniture hands on
extract_objects(service, classified_objects) ==
    IF service = "furniture"
    THEN [i \in 1 .. Len(classified_objects) |->
             FurnitureFrontendObject(classified_objects[i])]
    ELSE IF service = "minglun"
    THEN [i \in 1 .. Len(classified_objects) |->
             MingLunFrontendObject(i - 1, classified_objects[i])]
    ELSE classified_objects

\* the locals of a call that has not run yet
NewFrame ==
    [steps |-> {}, keep_indices |-> <<>>, detected_objects |-> <<>>,
     masks_bool |-> <<>>, realistic_image |-> "none",
     object_images_and_info |-> <<>>, debug_dir |-> -1,
     classifications |-> <<>>, classified_objects |-> <<>>,
     failed |-> {}]


Finish(c, classified_objects) ==
    /\ pc' = [pc EXCEPT ![c] = "done"]
    /\ returned' = [returned EXCEPT ![c] = classified_objects]
    /\ frontend_objects' =
           [frontend_objects EXCEPT
               ![c] = extract_objects(requests[c].service, classified_objects)]

\* the call up to its first await: decode, segment, reconstruct the masks
Start(c) ==
    /\ modality = "extract"
    /\ pc[c] = "new"
    /\ LET req == requests[c]
       IN  IF ~Decodes(req.image_bytes)
           THEN /\ pc' = [pc EXCEPT ![c] = "failed"]
                /\ error' = [error EXCEPT ![c] = "ValueError"]
                /\ frame' = [frame EXCEPT ![c].steps = {"decode"}]
                /\ UNCHANGED <<model, returned, frontend_objects>>
           ELSE \E seg \in {_segment_image(req.image_bytes, req.max_size_ratio,
                                           req.overlap_threshold)} :
                    /\ model' = [model EXCEPT ![req.service] = "FastSAM"]
                    /\ UNCHANGED error
                    /\ IF seg.detected_objects = <<>>
                       THEN /\ frame' = [frame EXCEPT
                                   ![c].steps = {"decode", "segment"},
                                   ![c].keep_indices = seg.keep_indices]
                            /\ Finish(c, <<>>)
                       ELSE /\ frame' = [frame EXCEPT
                                   ![c].steps = {"decode", "segment", "render"},
                                   ![c].keep_indices = seg.keep_indices,
                                   ![c].detected_objects = seg.detected_objects,
                                   ![c].masks_bool = _reconstruct_masks(req.image_bytes)]
                            /\ pc' = [pc EXCEPT ![c] = "render"]
                            /\ UNCHANGED <<returned, frontend_objects>>
    /\ UNCHANGED <<modality, fill_vars, match_vars, store_vars,
                   requests, now, debug_files, mask_vars, bfs_vars, llm_vars>>

\* _generate_realistic_floorplan returns the rendering, or the original image on
\* any failure; the call then cuts the crops, writes the debug images and
\* creates one classification task per object
Rendered(c) ==
    /\ modality = "extract"
    /\ pc[c] = "render"
    /\ \E rendering \in {"rendered", "failed"} :
       \E info \in {ObjectImagesAndInfo(frame[c].detected_objects, frame[c].masks_bool,
                        IF rendering = "rendered" THEN "realistic" ELSE "original")} :
           /\ frame' = [frame EXCEPT
                  ![c].realistic_image =
                      IF rendering = "rendered" THEN "realistic" ELSE "original",
                  ![c].failed = IF rendering = "failed" THEN {<<"render", 0>>} ELSE {},
                  ![c].object_images_and_info = info,
                  ![c].debug_dir =
                      IF Len(info) > 0 /\ requests[c].save_debug_images THEN now ELSE -1,
                  ![c].classifications = [i \in 1 .. Len(info) |-> Pending],
                  ![c].steps =
                      IF Len(info) = 0 THEN @
                      ELSE IF requests[c].save_debug_images
                      THEN @ \cup {"debug", "classify"} ELSE @ \cup {"classify"}]
           /\ debug_files' =
                  IF Len(info) > 0 /\ requests[c].save_debug_images
                  THEN WriteDebug(debug_files, now, Len(info), c)
                  ELSE debug_files
           /\ IF Len(info) = 0
              THEN Finish(c, <<>>)
              ELSE /\ pc' = [pc EXCEPT ![c] = "classify"]
                   /\ UNCHANGED <<returned, frontend_objects>>
    /\ UNCHANGED <<modality, fill_vars, match_vars, store_vars,
                   requests, now, model, error, mask_vars, bfs_vars, llm_vars>>

\* one task of the gather completes: the reply parses, or anything fails
FurnitureReplies == {"chair"}
Classified(c, i) ==
    /\ modality = "extract"
    /\ pc[c] = "classify"
    /\ i \in 1 .. Len(frame[c].classifications)
    /\ frame[c].classifications[i] = Pending
    /\ \E classification \in
           {ErrorClassification(i)} \cup
           {ParsedClassification(i, t) : t \in FurnitureReplies} :
           /\ frame' = [frame EXCEPT
                  ![c].classifications[i] = classification,
                  ![c].failed = IF classification.confidence = "error"
                                THEN @ \cup {<<"classify", i>>} ELSE @,
                  ![c].steps =
                      IF \A j \in 1 .. Len(frame[c].classifications) :
                             j # i => frame[c].classifications[j] # Pending
                      THEN @ \cup {"match"} ELSE @]
           /\ pc' = IF \A j \in 1 .. Len(frame[c].classifications) :
                           j # i => frame[c].classifications[j] # Pending
                    THEN [pc EXCEPT ![c] = "match"] ELSE pc
    /\ UNCHANGED <<modality, fill_vars, match_vars, store_vars,
                   requests, now, model, debug_files, error, returned,
                   frontend_objects, mask_vars, bfs_vars, llm_vars>>

\* the match of the next object completes; after the last one the call returns
Matched(c) ==
    /\ modality = "extract"
    /\ pc[c] = "match"
    /\ \E reply \in MatchReplies :
           LET i == Len(frame[c].classified_objects) + 1
               classified_objects ==
                   Append(frame[c].classified_objects,
                       ClassifiedObject(frame[c].object_images_and_info[i].obj,
                                        frame[c].classifications[i],
                                        MatchedIndex(reply)))
           IN  /\ frame' = [frame EXCEPT
                      ![c].classified_objects = classified_objects,
                      ![c].failed = IF reply.ok THEN @ ELSE @ \cup {<<"match", i>>}]
               /\ IF i = Len(frame[c].object_images_and_info)
                  THEN Finish(c, classified_objects)
                  ELSE UNCHANGED <<pc, returned, frontend_objects>>
    /\ UNCHANGED <<modality, fill_vars, match_vars, store_vars,
                   requests, now, model, debug_files, error,
                   mask_vars, bfs_vars, llm_vars>>

\* datetime.now() moves on by a second while some call is still running
Tick ==
    /\ modality = "extract"
    /\ now < MaxClock
    /\ \E c \in Calls : pc[c] \notin {"done", "failed"}
    /\ now' = now + 1
    /\ UNCHANGED <<modality, fill_vars, match_vars, store_vars,
                   requests, pc, frame, model, debug_files, error, returned,
                   frontend_objects, mask_vars, bfs_vars, llm_vars>>

-----------------------------------------------------------------------------
(* POST /ai/llm *)

\* form fields as sent: absent, the empty string, or text; text that is read
\* as JSON parses or does not
LlmRequests ==
    [prompt : {"absent", "empty", "text"},
     messages : {"absent", "empty", "json", "not_json"},
     image_urls : {"absent", "json", "not_json"},
     images : 0 .. MaxUploads]

\* truth value of an Optional[str]
Truthy(field) == field \notin {"absent", "empty"}

HTTPException(status_code) == [type |-> "HTTPException", status_code |-> status_code]
JSONDecodeError == [type |-> "JSONDecodeError", status_code |-> 0]
OtherError == [type |-> "Exception", status_code |-> 0]

\* the two except clauses of the handler: a JSONDecodeError becomes 400, any
\* other Exception, an HTTPException raised in the try block included, 500
StatusOfCaught(exc) ==
    IF exc.type = "JSONDecodeError" THEN 400 ELSE 500

Respond(status_code) ==
    /\ llm_pc' = "responded"
    /\ llm_status' = status_code

\* what follows the validation: uploads are read, then URLs fetched, then the
\* AI service is asked
AfterValidation(req) ==
    IF req.images > 0 THEN "reading"
    ELSE IF Truthy(req.image_urls) THEN "fetching" ELSE "asking"

\* the two checks on prompt and messages
LlmValidate ==
    /\ modality = "llm"
    /\ llm_pc = "received"
    /\ IF (~Truthy(llm_request.prompt) /\ ~Truthy(llm_request.messages))
          \/ (Truthy(llm_request.prompt) /\ Truthy(llm_request.messages))
       THEN Respond(StatusOfCaught(HTTPException(400)))
       ELSE /\ llm_pc' = AfterValidation(llm_request)
            /\ UNCHANGED llm_status
    /\ UNCHANGED <<modality, fill_vars, match_vars, store_vars,
                   llm_request, image_list, ai_calls,
                   mask_vars, bfs_vars, extract_vars>>

\* for img in images: await img.read()
LlmReadUpload ==
    /\ modality = "llm"
    /\ llm_pc = "reading"
    /\ \/ /\ image_list' = image_list + 1
          /\ llm_pc' = IF image_list + 1 < llm_request.images THEN "reading"
                       ELSE IF Truthy(llm_request.image_urls) THEN "fetching"
                       ELSE "asking"
          /\ UNCHANGED llm_status
       \/ /\ Respond(StatusOfCaught(OtherError))
          /\ UNCHANGED image_list
    /\ UNCHANGED <<modality, fill_vars, match_vars, store_vars,
                   llm_request, ai_calls, mask_vars, bfs_vars, extract_vars>>

\* urls = json.loads(image_urls); one URL is fetched
LlmFetchUrl ==
    /\ modality = "llm"
    /\ llm_pc = "fetching"
    /\ IF llm_request.image_urls = "not_json"
       THEN /\ Respond(StatusOfCaught(JSONDecodeError))
            /\ UNCHANGED image_list
       ELSE \/ /\ image_list' = image_list + 1
               /\ llm_pc' = "asking"
               /\ UNCHANGED llm_status
            \/ /\ Respond(StatusOfCaught(OtherError))
               /\ UNCHANGED image_list
    /\ UNCHANGED <<modality, fill_vars, match_vars, store_vars,
                   llm_request, ai_calls, mask_vars, bfs_vars, extract_vars>>

\* ai_service.chat for messages, ai_service.generate_text for a prompt
LlmAsk ==
    /\ modality = "llm"
    /\ llm_pc = "asking"
    /\ IF llm_request.messages = "not_json"
       THEN /\ Respond(StatusOfCaught(JSONDecodeError))
            /\ UNCHANGED ai_calls
       ELSE /\ ai_calls' = ai_calls + 1
            /\ \/ Respond(200)
               \/ Respond(StatusOfCaught(OtherError))
    /\ UNCHANGED <<modality, fill_vars, match_vars, store_vars,
                   llm_request, image_list, mask_vars, bfs_vars, extract_vars>>

-----------------------------------------------------------------------------
(* detect_rectangles_bfs, one loop iteration at a time *)

\* the pairs (dx, dy) in the order of the two for loops over
\* range(-rectangle_pixel_dist_lenience, rectangle_pixel_dist_lenience + 1),
\* without (0, 0)
Offsets ==
    LET side == 2 * rectangle_pixel_dist_lenience + 1
        all == [k \in 1 .. side * side |->
                   <<((k - 1) \div side) - rectangle_pixel_dist_lenience,
                     ((k - 1) % side) - rectangle_pixel_dist_lenience>>]
    IN  SelectSeq(all, LAMBDA d : d # <<0, 0>>)

\* for y in range(height): for x in range(width)
PixelAt(k) == <<k % width, k \div width>>

SeedLeftUnmarked(p, marked) == marked

\* visited[y, x] = True at the seed
SeedMarked(p, marked) == marked \cup {p}

\* 0 <= nx < width and 0 <= ny < height and not visited[ny, nx]
Unvisited(n, marked) == n \in Pixels /\ n \notin marked

\* the neighbors the inner loops append for the pixel popped, in their order
Found(img, curr, marked, target) ==
    SelectSeq([k \in 1 .. Len(Offsets) |->
                  <<curr[1] + Offsets[k][1], curr[2] + Offsets[k][2]>>],
              LAMBDA n : /\ Unvisited(n, marked)
                         /\ SimilarColor(rgb_image(img, n), target))

Elements(s) == {s[k] : k \in 1 .. Len(s)}

\* how often each pixel of s occurs in it, added to the counts so far
Counted(counts, s) ==
    [p \in Pixels |->
        counts[p] + Cardinality({k \in 1 .. Len(s) : s[k] = p})]

\* one iteration of the scan: pass over a visited or skipped pixel, or start a
\* fill at it
ScanPixel ==
    /\ modality = "fill"
    /\ fill_pc = "scan"
    /\ scan_index < width * height
    /\ LET p == PixelAt(scan_index)
           c == rgb_image(image, p)
       IN  IF p \in visited \/ Skipped(c)
           THEN /\ scan_index' = scan_index + 1
                /\ UNCHANGED <<visited, queue, fill_pc, fill_target, bounds,
                               appended, region_of, fills>>
           ELSE /\ queue' = <<p>>
                /\ visited' = SeedMarked(p, visited)
                /\ bounds' = [min_x |-> p[1], max_x |-> p[1],
                              min_y |-> p[2], max_y |-> p[2]]
                /\ fill_target' = c
                /\ appended' = Counted(appended, <<p>>)
                /\ fills' = fills + 1
                /\ fill_pc' = "bfs"
                /\ UNCHANGED <<scan_index, region_of>>
    /\ UNCHANGED <<modality, image, regions, rectangles, rectangles_prev, bfs_calls,
                   mask_vars, extract_vars, llm_vars, match_vars, store_vars>>

\* one iteration of while queue: popleft, the bounds, the window
PopPixel ==
    /\ modality = "fill"
    /\ fill_pc = "bfs"
    /\ queue # <<>>
    /\ LET curr == Head(queue)
       IN  \E found \in {Found(image, curr, visited, fill_target)} :
               /\ queue' = Tail(queue) \o found
               /\ visited' = visited \cup Elements(found)
               /\ appended' = Counted(appended, found)
               /\ bounds' = [min_x |-> Least(bounds.min_x, curr[1]),
                             max_x |-> Greatest(bounds.max_x, curr[1]),
                             min_y |-> Least(bounds.min_y, curr[2]),
                             max_y |-> Greatest(bounds.max_y, curr[2])]
               /\ region_of' = [region_of EXCEPT ![curr] = @ \cup {fills}]
    /\ UNCHANGED <<modality, image, regions, rectangles, rectangles_prev, bfs_calls,
                   scan_index, fill_pc, fill_target, fills,
                   mask_vars, extract_vars, llm_vars, match_vars, store_vars>>

\* the queue is empty: the size test, and the scan goes on
CloseFill ==
    /\ modality = "fill"
    /\ fill_pc = "bfs"
    /\ queue = <<>>
    /\ rectangles' =
          IF LargeEnough(bounds)
          THEN Append(rectangles,
                      <<bounds.min_x, bounds.min_y, bounds.max_x - bounds.min_x,
                        bounds.max_y - bounds.min_y, fill_target>>)
          ELSE rectangles
    /\ scan_index' = scan_index + 1
    /\ fill_pc' = "scan"
    /\ UNCHANGED <<modality, image, visited, regions, rectangles_prev, bfs_calls,
                   queue, fill_target, bounds, appended, region_of, fills,
                   mask_vars, extract_vars, llm_vars, match_vars, store_vars>>

\* the scan has passed the last pixel
ScanEnds ==
    /\ modality = "fill"
    /\ fill_pc = "scan"
    /\ scan_index = width * height
    /\ fill_pc' = "done"
    /\ UNCHANGED <<modality, bfs_vars, queue, scan_index, fill_target, bounds,
                   appended, region_of, fills,
                   mask_vars, extract_vars, llm_vars, match_vars, store_vars>>

-----------------------------------------------------------------------------
(* _match_object_to_model_variation *)

MaxFolders == 2

\* what os.listdir(furniture_dir) holds: an entry that is no variation folder,
\* a variation folder without product_image.png, one whose product_image.png
\* cv2.imread cannot read, one with a readable product image
EntryKinds == {"stray", "no_image", "unreadable", "image"}

\* floorplan_items/<furniture_type> is missing, a regular file, or a directory
MatchCalls ==
    {[api_key |-> k, furniture_dir |-> d, entries |-> <<>>] :
        k \in BOOLEAN, d \in {"missing", "file"}}
    \cup {[api_key |-> k, furniture_dir |-> "dir", entries |-> e] :
            k \in BOOLEAN,
            e \in UNION {[1 .. n -> EntryKinds] : n \in 0 .. MaxFolders}}

\* what comes back from messages.create: an exception or a text json.loads
\* rejects; an object without best_match_index; one whose best_match_index is
\* null or a string; one whose best_match_index is a number <<num, den>>
MatchAnswers ==
    {[kind |-> "error", best_match_index |-> <<0, 1>>],
     [kind |-> "no_index", best_match_index |-> <<0, 1>>],
     [kind |-> "not_a_number", best_match_index |-> <<0, 1>>]}
    \cup {[kind |-> "number", best_match_index |-> <<n, 1>>] :
            n \in -1 .. MaxFolders}
    \cup {[kind |-> "number", best_match_index |-> <<n, 2>>] : n \in {1, 3}}

variation_folders(call) == SelectSeq(call.entries, LAMBDA e : e # "stray")

variation_images(call) == SelectSeq(variation_folders(call), LAMBDA e : e = "image")

\* 0 <= best_match < len(variation_images)
IndexValid(best_match, n) == 0 <= best_match[1] /\ best_match[1] < n * best_match[2]

\* the function up to the await; os.listdir is outside the try
MatchStart ==
    /\ modality = "match"
    /\ match_pc = "called"
    /\ IF ~match_call.api_key \/ match_call.furniture_dir = "missing"
       THEN match_pc' = "returned" /\ match_result' = <<0, 1>>
       ELSE IF match_call.furniture_dir = "file"
       THEN match_pc' = "raised" /\ UNCHANGED match_result
       ELSE IF Len(variation_folders(match_call)) = 0
               \/ Len(variation_images(match_call)) = 0
       THEN match_pc' = "returned" /\ match_result' = <<0, 1>>
       ELSE match_pc' = "awaiting" /\ UNCHANGED match_result
    /\ UNCHANGED <<modality, match_call, match_answer, mask_vars, bfs_vars,
                   extract_vars, llm_vars, fill_vars, store_vars>>

\* the function from the await on, inside the try
MatchAnswered ==
    /\ modality = "match"
    /\ match_pc = "awaiting"
    /\ \E answer \in MatchAnswers :
          LET best_match == IF answer.kind = "no_index" THEN <<0, 1>>
                            ELSE answer.best_match_index
          IN  /\ match_answer' = answer
              /\ match_result' =
                     IF answer.kind \in {"error", "not_a_number"} THEN <<0, 1>>
                     ELSE IF IndexValid(best_match, Len(variation_images(match_call)))
                     THEN best_match
                     ELSE <<0, 1>>
    /\ match_pc' = "returned"
    /\ UNCHANGED <<modality, match_call, mask_vars, bfs_vars, extract_vars, llm_vars,
                   fill_vars, store_vars>>

-----------------------------------------------------------------------------
(* The project store and the routers that use it *)

MaxProjects == 1
MaxInFlight == 1

\* the values uuid.uuid4() gives to create_project, in the order it gives them
ProjectUuids == <<"p1", "p2", "p3">>

\* the value uuid.uuid4() gives to generate_object
ObjectUuids == <<"g1">>

\* the project ids requests come with: those created and one that never is
RequestIds == {ProjectUuids[k] : k \in 1 .. MaxProjects + 1}

\* None, as the value of floorplan_data and scene_data
NoData == [none |-> TRUE]

Position2D(x, y) == [x |-> x, y |-> y]

FloorplanObject(object_id, type, model_id) ==
    [object_id |-> object_id, type |-> type, model_id |-> model_id,
     position |-> Position2D(0, 0), dimensions |-> Position2D(50, 50)]

\* request bodies of POST /floorplan/construct: the second list has two
\* objects with one object_id
PlainFloorplans == {<<>>, <<FloorplanObject("a", "table", "001")>>}

Floorplans ==
    PlainFloorplans
    \cup {<<FloorplanObject("a", "table", "001"), FloorplanObject("a", "chair", "001")>>,
          <<FloorplanObject("b", "bed", "001"), FloorplanObject("a", "table", "001")>>,
          <<FloorplanObject("b", "bed", "001"), FloorplanObject("a", "table", "001"),
            FloorplanObject("a", "chair", "001")>>}

\* object_id, position and model_id of the PATCH requests
ObjectIds == {"a", "b", "zz"}
Positions == {Position2D(3, 4)}
ModelIds == {"002"}

\* the endpoints that await an external service between the lookup of the
\* project and their response, and the project field they update after it
Awaited ==
    {"sketch/complete", "sketch/revise", "image/generate", "image/edit-region",
     "image/revise", "floorplan/generate-base", "floorplan/add-markers",
     "floorplan/extract-entities"}

Field(endpoint) ==
    IF endpoint \in {"sketch/complete", "sketch/revise"} THEN "sketch_data"
    ELSE IF endpoint \in {"image/generate", "image/edit-region", "image/revise"}
    THEN "image_url"
    ELSE "none"

NoRequest == [endpoint |-> "none", project_id |-> "none", status |-> 0,
              object_id |-> "none"]

\* PROJECTS.get(project_id)
get_project(project_id) == Get(PROJECTS, project_id, NoData)

create_project(project_id) ==
    [id \in DOMAIN PROJECTS \cup {project_id} |->
        IF id = project_id
        THEN [project_id |-> project_id, sketch_data |-> "None",
              image_url |-> "None", floorplan_data |-> NoData,
              scene_data |-> NoData]
        ELSE PROJECTS[id]]

Updated(project, data) ==
    [f \in DOMAIN project \cup DOMAIN data |->
        IF f \in DOMAIN data THEN data[f] ELSE project[f]]

Upserted(project_id, data) ==
    [id \in DOMAIN PROJECTS \cup {project_id} |->
        IF id = project_id
        THEN Updated(Get(PROJECTS, id, EmptyDict), data)
        ELSE PROJECTS[id]]

\* if project_id in PROJECTS: PROJECTS[project_id].update(data)
update_project(project_id, data) ==
    IF project_id \in DOMAIN PROJECTS
    THEN [PROJECTS EXCEPT ![project_id] = Updated(@, data)]
    ELSE PROJECTS

\* if not project
ProjectMissing(project) == project = NoData

\* if not project or not project.get("floorplan_data")
FloorplanMissing(project) ==
    ProjectMissing(project) \/ project.floorplan_data = NoData

ProjectOnlyMissing(project) == project = NoData

\* if not project or not project.get("scene_data")
SceneMissing(project) ==
    ProjectMissing(project) \/ project.scene_data = NoData

\* the response, and the store as the handler found it
Served(endpoint, project_id, status, object_id) ==
    /\ response' = [endpoint |-> endpoint, project_id |-> project_id,
                    status |-> status, object_id |-> object_id]
    /\ PROJECTS_before' = PROJECTS

\* POST /projects
CreateProject ==
    /\ modality = "store"
    /\ Cardinality(DOMAIN PROJECTS) < MaxProjects
    /\ LET project_id == ProjectUuids[Cardinality(DOMAIN PROJECTS) + 1]
       IN  /\ PROJECTS' = create_project(project_id)
           /\ Served("projects/create", project_id, 200, "none")
    /\ UNCHANGED <<modality, in_flight, generated, scenes_generated,
                   mask_vars, bfs_vars, extract_vars, llm_vars, fill_vars, match_vars>>

\* GET /projects/{project_id}
GetProject(project_id) ==
    /\ modality = "store"
    /\ Served("projects/get", project_id,
              IF ProjectMissing(get_project(project_id)) THEN 404 ELSE 200, "none")
    /\ UNCHANGED <<modality, PROJECTS, in_flight, generated, scenes_generated,
                   mask_vars, bfs_vars, extract_vars, llm_vars, fill_vars, match_vars>>

\* an endpoint of Awaited, up to its await
BeginAwaited(endpoint, project_id) ==
    /\ modality = "store"
    /\ Cardinality(in_flight) < MaxInFlight
    /\ IF ProjectMissing(get_project(project_id))
       THEN /\ Served(endpoint, project_id, 404, "none")
            /\ UNCHANGED in_flight
       ELSE /\ in_flight' = in_flight \cup
                   {[endpoint |-> endpoint, project_id |-> project_id]}
            /\ UNCHANGED <<response, PROJECTS_before>>
    /\ UNCHANGED <<modality, PROJECTS, generated, scenes_generated,
                   mask_vars, bfs_vars, extract_vars, llm_vars, fill_vars, match_vars>>

\* an endpoint of Awaited, from its await on: the service raised, or it gave
\* a value that goes to update_project
CompleteAwaited(call, ok) ==
    /\ modality = "store"
    /\ call \in in_flight
    /\ in_flight' = in_flight \ {call}
    /\ IF ~ok
       THEN /\ Served(call.endpoint, call.project_id, 500, "none")
            /\ UNCHANGED PROJECTS
       ELSE /\ PROJECTS' =
                  IF Field(call.endpoint) = "sketch_data"
                  THEN update_project(call.project_id, [sketch_data |-> "sketch"])
                  ELSE IF Field(call.endpoint) = "image_url"
                  THEN update_project(call.project_id, [image_url |-> "url"])
                  ELSE PROJECTS
            /\ Served(call.endpoint, call.project_id, 200, "none")
    /\ UNCHANGED <<modality, generated, scenes_generated,
                   mask_vars, bfs_vars, extract_vars, llm_vars, fill_vars, match_vars>>

\* GET /image/{project_id}
GetImage(project_id) ==
    /\ modality = "store"
    /\ LET project == get_project(project_id)
       IN  Served("image/get", project_id,
                  IF ProjectMissing(project) THEN 404
                  ELSE IF project.image_url = "None" THEN 404 ELSE 200, "none")
    /\ UNCHANGED <<modality, PROJECTS, in_flight, generated, scenes_generated,
                   mask_vars, bfs_vars, extract_vars, llm_vars, fill_vars, match_vars>>

\* POST /floorplan/classify-objects: project.get("floorplan_data", {}) is None
\* while no floorplan was constructed, and .get on it raises; a constructed
\* floorplan has no base_floorplan_url
ClassifyObjects(project_id) ==
    /\ modality = "store"
    /\ LET project == get_project(project_id)
       IN  Served("floorplan/classify-objects", project_id,
                  IF ProjectMissing(project) THEN 404
                  ELSE IF project.floorplan_data = NoData THEN 500 ELSE 400, "none")
    /\ UNCHANGED <<modality, PROJECTS, in_flight, generated, scenes_generated,
                   mask_vars, bfs_vars, extract_vars, llm_vars, fill_vars, match_vars>>

\* POST /floorplan/construct
ConstructFloorplan(project_id, objects) ==
    /\ modality = "store"
    /\ IF ProjectMissing(get_project(project_id))
       THEN /\ Served("floorplan/construct", project_id, 404, "none")
            /\ UNCHANGED PROJECTS
       ELSE /\ PROJECTS' = update_project(project_id,
                   [floorplan_data |-> [objects |-> objects, constructed |-> TRUE]])
            /\ Served("floorplan/construct", project_id, 200, "none")
    /\ UNCHANGED <<modality, in_flight, generated, scenes_generated,
                   mask_vars, bfs_vars, extract_vars, llm_vars, fill_vars, match_vars>>

EveryMatch(objects, object_id) ==
    {k \in 1 .. Len(objects) : objects[k].object_id = object_id}

\* for obj in objects: if obj["object_id"] == request.object_id: ...; break
FirstMatch(objects, object_id) ==
    LET matches == {k \in 1 .. Len(objects) : objects[k].object_id = object_id}
    IN  {k \in matches : \A other \in matches : k <= other}

\* PATCH /floorplan/{project_id}/move-object
MoveObject(project_id, object_id, position) ==
    /\ modality = "store"
    /\ LET project == get_project(project_id)
       IN  IF FloorplanMissing(project)
           THEN /\ Served("floorplan/move-object", project_id, 404, object_id)
                /\ UNCHANGED PROJECTS
           ELSE LET objects == project.floorplan_data.objects
                    hit == FirstMatch(objects, object_id)
                    moved == [k \in 1 .. Len(objects) |->
                                 IF k \in hit
                                 THEN [objects[k] EXCEPT !.position = position]
                                 ELSE objects[k]]
                IN  /\ PROJECTS' = update_project(project_id,
                           [floorplan_data |->
                               [project.floorplan_data EXCEPT !.objects = moved]])
                    /\ Served("floorplan/move-object", project_id, 200, object_id)
    /\ UNCHANGED <<modality, in_flight, generated, scenes_generated,
                   mask_vars, bfs_vars, extract_vars, llm_vars, fill_vars, match_vars>>

\* PATCH /floorplan/{project_id}/change-model
ChangeModel(project_id, object_id, model_id) ==
    /\ modality = "store"
    /\ LET project == get_project(project_id)
       IN  IF FloorplanMissing(project)
           THEN /\ Served("floorplan/change-model", project_id, 404, object_id)
                /\ UNCHANGED PROJECTS
           ELSE LET objects == project.floorplan_data.objects
                    hit == FirstMatch(objects, object_id)
                    changed == [k \in 1 .. Len(objects) |->
                                   IF k \in hit
                                   THEN [objects[k] EXCEPT !.model_id = model_id]
                                   ELSE objects[k]]
                IN  /\ PROJECTS' = update_project(project_id,
                           [floorplan_data |->
                               [project.floorplan_data EXCEPT !.objects = changed]])
                    /\ Served("floorplan/change-model", project_id, 200, object_id)
    /\ UNCHANGED <<modality, in_flight, generated, scenes_generated,
                   mask_vars, bfs_vars, extract_vars, llm_vars, fill_vars, match_vars>>

\* POST /floorplan/generate-object
GenerateObject(project_id) ==
    /\ modality = "store"
    /\ generated < Len(ObjectUuids)
    /\ LET project == get_project(project_id)
       IN  IF FloorplanMissing(project)
           THEN /\ Served("floorplan/generate-object", project_id, 404, "none")
                /\ UNCHANGED <<PROJECTS, generated>>
           ELSE LET new_object ==
                        FloorplanObject(ObjectUuids[generated + 1], "table", "001")
                IN  /\ PROJECTS' = update_project(project_id,
                           [floorplan_data |->
                               [project.floorplan_data EXCEPT
                                   !.objects = Append(@, new_object)]])
                    /\ generated' = generated + 1
                    /\ Served("floorplan/generate-object", project_id, 200, "none")
    /\ UNCHANGED <<modality, in_flight, scenes_generated,
                   mask_vars, bfs_vars, extract_vars, llm_vars, fill_vars, match_vars>>

\* GET /floorplan/{project_id}
GetFloorplan(project_id) ==
    /\ modality = "store"
    /\ Served("floorplan/get", project_id,
              IF FloorplanMissing(get_project(project_id)) THEN 404 ELSE 200, "none")
    /\ UNCHANGED <<modality, PROJECTS, in_flight, generated, scenes_generated,
                   mask_vars, bfs_vars, extract_vars, llm_vars, fill_vars, match_vars>>

\* SceneGenerationService.convert_2d_to_3d
convert_2d_to_3d(floorplan_objects) ==
    [k \in 1 .. Len(floorplan_objects) |->
        LET obj == floorplan_objects[k]
        IN  [object_id |-> obj.object_id, type |-> obj.type,
             model_id |-> obj.model_id,
             position |-> [x |-> obj.position.x, y |-> 0, z |-> obj.position.y],
             dimensions |-> [x |-> obj.dimensions.x, y |-> 50,
                             z |-> obj.dimensions.y]]]

\* POST /scene/generate
GenerateScene(project_id) ==
    /\ modality = "store"
    /\ LET project == get_project(project_id)
       IN  IF FloorplanMissing(project)
           THEN /\ Served("scene/generate", project_id, 404, "none")
                /\ UNCHANGED <<PROJECTS, scenes_generated>>
           ELSE /\ PROJECTS' = update_project(project_id,
                       [scene_data |->
                           [objects |->
                               convert_2d_to_3d(project.floorplan_data.objects)]])
                /\ scenes_generated' = scenes_generated \cup {project_id}
                /\ Served("scene/generate", project_id, 200, "none")
    /\ UNCHANGED <<modality, in_flight, generated,
                   mask_vars, bfs_vars, extract_vars, llm_vars, fill_vars, match_vars>>

\* GET /scene/{project_id}
GetScene(project_id) ==
    /\ modality = "store"
    /\ Served("scene/get", project_id,
              IF SceneMissing(get_project(project_id)) THEN 404 ELSE 200, "none")
    /\ UNCHANGED <<modality, PROJECTS, in_flight, generated, scenes_generated,
                   mask_vars, bfs_vars, extract_vars, llm_vars, fill_vars, match_vars>>

\* POST /scene/export
ExportScene(project_id) ==
    /\ modality = "store"
    /\ Served("scene/export", project_id,
              IF SceneMissing(get_project(project_id)) THEN 404 ELSE 200, "none")
    /\ UNCHANGED <<modality, PROJECTS, in_flight, generated, scenes_generated,
                   mask_vars, bfs_vars, extract_vars, llm_vars, fill_vars, match_vars>>

\* the data of a direct call of memory_store.update_project
UpdateData == {[image_url |-> "url"], [scene_data |-> [objects |-> <<>>]]}

\* memory_store.update_project, called by other code than the routers
UpdateProjectCall(project_id, data) ==
    /\ modality = "store"
    /\ PROJECTS' = update_project(project_id, data)
    /\ Served("memory_store.update_project", project_id, 0, "none")
    /\ UNCHANGED <<modality, in_flight, generated, scenes_generated,
                   mask_vars, bfs_vars, extract_vars, llm_vars, fill_vars, match_vars>>

-----------------------------------------------------------------------------
(* Specification *)

MaskIdle ==
    /\ masks = <<>>
    /\ max_size_ratio = <<1, 2>>
    /\ overlap_threshold = <<1, 2>>
    /\ mask_data = <<>>
    /\ to_keep = <<>>
    /\ to_remove = {}
    /\ filter_result = <<>>
    /\ filter_prev = <<>>
    /\ filter_calls = 0

BfsIdle ==
    /\ image = <<>>
    /\ visited = {}
    /\ regions = <<>>
    /\ rectangles = <<>>
    /\ rectangles_prev = <<>>
    /\ bfs_calls = 0

ExtractIdle ==
    /\ requests = <<>>
    /\ pc = <<>>
    /\ frame = <<>>
    /\ returned = <<>>
    /\ frontend_objects = <<>>
    /\ error = <<>>
    /\ model = <<>>
    /\ now = 0
    /\ debug_files = <<>>

LlmIdle ==
    /\ llm_request = <<>>
    /\ llm_pc = "idle"
    /\ llm_status = 0
    /\ image_list = 0
    /\ ai_calls = 0

FillIdle ==
    /\ queue = <<>>
    /\ scan_index = 0
    /\ fill_pc = "idle"
    /\ fill_target = <<0, 0, 0>>
    /\ bounds = [min_x |-> 0, max_x |-> 0, min_y |-> 0, max_y |-> 0]
    /\ appended = <<>>
    /\ region_of = <<>>
    /\ fills = 0

MatchIdle ==
    /\ match_call = <<>>
    /\ match_pc = "idle"
    /\ match_answer = <<>>
    /\ match_result = <<>>

StoreIdle ==
    /\ PROJECTS = EmptyDict
    /\ PROJECTS_before = EmptyDict
    /\ in_flight = {}
    /\ response = NoRequest
    /\ generated = 0
    /\ scenes_generated = {}

\* a call with soft masks
InitMask ==
    /\ modality = "masks"
    /\ \E n \in 0 .. MaxMasks : masks \in [1 .. n -> MaskInputs]
    /\ \E cfg \in Settings :
          /\ max_size_ratio = cfg.max_size_ratio
          /\ overlap_threshold = cfg.overlap_threshold
    /\ mask_data = <<>>
    /\ to_keep = <<>>
    /\ to_remove = {}
    /\ filter_result = <<>>
    /\ filter_prev = <<>>
    /\ filter_calls = 0
    /\ BfsIdle
    /\ ExtractIdle
    /\ LlmIdle
    /\ FillIdle
    /\ MatchIdle
    /\ StoreIdle

\* a call without masks: regions come from the colors of the raster
InitBfs ==
    /\ modality = "image"
    /\ image \in ImageInputs
    /\ visited = {}
    /\ regions = <<>>
    /\ rectangles = <<>>
    /\ rectangles_prev = <<>>
    /\ bfs_calls = 0
    /\ MaskIdle
    /\ ExtractIdle
    /\ LlmIdle
    /\ FillIdle
    /\ MatchIdle
    /\ StoreIdle

\* extraction calls made at once through one of the services; no model is
\* loaded and no debug file exists
InitExtract ==
    /\ modality = "extract"
    /\ requests \in [Calls -> Requests]
    /\ \A c \in Calls : c > 1 =>
          /\ requests[c] \in Companions
          /\ requests[c].service = requests[1].service
          /\ requests[c].save_debug_images = requests[1].save_debug_images
    /\ pc = [c \in Calls |-> "new"]
    /\ frame = [c \in Calls |-> NewFrame]
    /\ returned = [c \in Calls |-> <<>>]
    /\ frontend_objects = [c \in Calls |-> <<>>]
    /\ error = [c \in Calls |-> "none"]
    /\ model = [s \in Services |-> "None"]
    /\ now = 0
    /\ debug_files = <<>>
    /\ MaskIdle
    /\ BfsIdle
    /\ LlmIdle
    /\ FillIdle
    /\ MatchIdle
    /\ StoreIdle

\* one request to POST /ai/llm
InitLlm ==
    /\ modality = "llm"
    /\ llm_request \in LlmRequests
    /\ llm_pc = "received"
    /\ llm_status = 0
    /\ image_list = 0
    /\ ai_calls = 0
    /\ MaskIdle
    /\ BfsIdle
    /\ ExtractIdle
    /\ FillIdle
    /\ MatchIdle
    /\ StoreIdle

\* one call of detect_rectangles_bfs, followed through its loops
InitFill ==
    /\ modality = "fill"
    /\ image \in FillInputs
    /\ visited = NewVisited
    /\ regions = <<>>
    /\ rectangles = <<>>
    /\ rectangles_prev = <<>>
    /\ bfs_calls = 0
    /\ queue = <<>>
    /\ scan_index = 0
    /\ fill_pc = "scan"
    /\ fill_target = <<0, 0, 0>>
    /\ bounds = [min_x |-> 0, max_x |-> 0, min_y |-> 0, max_y |-> 0]
    /\ appended = [p \in Pixels |-> 0]
    /\ region_of = [p \in Pixels |-> {}]
    /\ fills = 0
    /\ MaskIdle
    /\ ExtractIdle
    /\ LlmIdle
    /\ MatchIdle
    /\ StoreIdle

\* one call of _match_object_to_model_variation
InitMatch ==
    /\ modality = "match"
    /\ match_call \in MatchCalls
    /\ match_pc = "called"
    /\ match_answer = [kind |-> "none", best_match_index |-> <<0, 1>>]
    /\ match_result = <<>>
    /\ MaskIdle
    /\ BfsIdle
    /\ ExtractIdle
    /\ LlmIdle
    /\ FillIdle
    /\ StoreIdle

\* the backend after startup: PROJECTS = {}
InitStore ==
    /\ modality = "store"
    /\ StoreIdle
    /\ MaskIdle
    /\ BfsIdle
    /\ ExtractIdle
    /\ LlmIdle
    /\ FillIdle
    /\ MatchIdle

Init ==
    InitMask \/ InitBfs \/ InitExtract \/ InitLlm \/ InitFill \/ InitMatch \/ InitStore

NextRegions == FilterMasksCall \/ DetectRectanglesCall

NextExtract ==
    \/ \E c \in Calls : Start(c)
    \/ \E c \in Calls : Rendered(c)
    \/ \E c \in Calls : \E i \in 1 .. MaxMasks : Classified(c, i)
    \/ \E c \in Calls : Matched(c)
    \/ Tick

NextLlm == LlmValidate \/ LlmReadUpload \/ LlmFetchUrl \/ LlmAsk

NextFill == ScanPixel \/ PopPixel \/ CloseFill \/ ScanEnds

NextMatch == MatchStart \/ MatchAnswered

\* requests to every endpoint that looks a project up
NextPipeline ==
    \/ CreateProject
    \/ \E project_id \in RequestIds : GetProject(project_id)
    \/ \E endpoint \in Awaited, project_id \in RequestIds :
          BeginAwaited(endpoint, project_id)
    \/ \E call \in in_flight, ok \in BOOLEAN : CompleteAwaited(call, ok)
    \/ \E project_id \in RequestIds : GetImage(project_id)
    \/ \E project_id \in RequestIds : ClassifyObjects(project_id)
    \/ \E project_id \in RequestIds, objects \in PlainFloorplans :
          ConstructFloorplan(project_id, objects)
    \/ \E project_id \in RequestIds, object_id \in {"a", "zz"}, position \in Positions :
          MoveObject(project_id, object_id, position)
    \/ \E project_id \in RequestIds, object_id \in {"a", "zz"}, model_id \in ModelIds :
          ChangeModel(project_id, object_id, model_id)
    \/ \E project_id \in RequestIds : GenerateObject(project_id)
    \/ \E project_id \in RequestIds : GetFloorplan(project_id)
    \/ \E project_id \in RequestIds : GenerateScene(project_id)
    \/ \E project_id \in RequestIds : GetScene(project_id)
    \/ \E project_id \in RequestIds : ExportScene(project_id)

\* the same, and memory_store.update_project called directly
NextStore ==
    \/ NextPipeline
    \/ \E project_id \in RequestIds, data \in UpdateData :
          UpdateProjectCall(project_id, data)

\* the floorplan endpoints, with floorplans of several objects
NextFloorplan ==
    \/ CreateProject
    \/ \E project_id \in RequestIds, objects \in Floorplans :
          ConstructFloorplan(project_id, objects)
    \/ \E project_id \in RequestIds, object_id \in ObjectIds, position \in Positions :
          MoveObject(project_id, object_id, position)
    \/ \E project_id \in RequestIds, object_id \in ObjectIds, model_id \in ModelIds :
          ChangeModel(project_id, object_id, model_id)
    \/ \E project_id \in RequestIds : GenerateObject(project_id)
    \/ \E project_id \in RequestIds : GetFloorplan(project_id)

Next ==
    \/ NextRegions \/ NextExtract \/ NextLlm
    \/ NextFill \/ NextMatch \/ NextStore \/ NextFloorplan

Spec == Init /\ [][Next]_vars

SpecRegions == (InitMask \/ InitBfs) /\ [][NextRegions]_vars

SpecExtract == InitExtract /\ [][NextExtract]_vars

SpecLlm == InitLlm /\ [][NextLlm]_vars

SpecMask == InitMask /\ [][FilterMasksCall]_vars

SpecBfs == InitBfs /\ [][DetectRectanglesCall]_vars

SpecFill == InitFill /\ [][NextFill]_vars

\* the call runs on one thread that executes its next loop iteration as long
\* as there is one
SpecFillFair == SpecFill /\ WF_vars(NextFill)

SpecMatch == InitMatch /\ [][NextMatch]_vars

SpecStore == InitStore /\ [][NextStore]_vars

SpecPipeline == InitStore /\ [][NextPipeline]_vars

SpecFloorplan == InitStore /\ [][NextFloorplan]_vars

-----------------------------------------------------------------------------
(* Mask mode properties *)

FilterReturned == modality = "masks" /\ filter_calls > 0

\* original indices of the masks, and those in the returned list
Indices == 0 .. Len(masks) - 1
Kept == {filter_result[k] : k \in 1 .. Len(filter_result)}

\* thresholded pixels and pixel area of the mask with original index i
Thresholded(i) == {p \in MaskPixels : masks[i + 1][p] > 5}
Area(i) == Cardinality(Thresholded(i))

\* the bounding box of mask i exceeds max_size_ratio in width or in height
Oversize(i) ==
    LET xs == {p[1] : p \in Thresholded(i)}
        ys == {p[2] : p \in Thresholded(i)}
    IN  \/ (SetMax(xs) - SetMin(xs) + 1) * max_size_ratio[2] > max_size_ratio[1] * img_width
        \/ (SetMax(ys) - SetMin(ys) + 1) * max_size_ratio[2] > max_size_ratio[1] * img_height

\* mask i enters the overlap stage
Passes(i) == Area(i) > 0 /\ ~Oversize(i)

\* intersection over the smaller area, compared with overlap_threshold
Common(i, j) == Cardinality(Thresholded(i) \cap Thresholded(j))
Smaller(i, j) == Least(Area(i), Area(j))
OverlapAbove(i, j) ==
    Common(i, j) * overlap_threshold[2] > overlap_threshold[1] * Smaller(i, j)
OverlapAtLeast(i, j) ==
    Common(i, j) * overlap_threshold[2] >= overlap_threshold[1] * Smaller(i, j)
OverlapBelow(i, j) ==
    Common(i, j) * overlap_threshold[2] < overlap_threshold[1] * Smaller(i, j)

\* i is processed before j: larger area, or the same area and a lower index
Before(i, j) == Area(i) > Area(j) \/ (Area(i) = Area(j) /\ i < j)

\* C1: a mask whose thresholded bounding box exceeds max_size_ratio in width or
\* in height is absent from the returned list, whatever its area and overlaps.
C1_OversizeExcluded ==
    FilterReturned =>
        \A i \in Indices : (Area(i) > 0 /\ Oversize(i)) => i \notin Kept

\* an oversize mask is left out while a mask lying inside it is returned
C1_Witness ==
    /\ FilterReturned
    /\ \E i, j \in Indices :
          /\ Area(i) > 0 /\ Oversize(i) /\ i \notin Kept
          /\ j \in Kept /\ Thresholded(j) \subseteq Thresholded(i)

C4_AsStated ==
    FilterReturned =>
        \A i, j \in Indices :
            (i < j /\ Passes(i) /\ Passes(j) /\ Area(i) = Area(j) /\ OverlapAbove(i, j))
                => (i \in Kept /\ j \notin Kept)

\* C4: of two masks of equal area that pass the size check and overlap above the
\* threshold, at most one is returned; the one with the lower index is returned
\* unless a returned mask processed before it overlaps it above the threshold.
C4_TieBreak ==
    FilterReturned =>
        \A i, j \in Indices :
            (i < j /\ Passes(i) /\ Passes(j) /\ Area(i) = Area(j) /\ OverlapAbove(i, j))
                => /\ ~(i \in Kept /\ j \in Kept)
                   /\ i \notin Kept =>
                          \E k \in Kept : k # j /\ Before(k, i) /\ OverlapAbove(k, i)

\* two distinct masks tie in area and overlap; the one with the lower index is returned
C4_Witness ==
    /\ FilterReturned
    /\ \E i, j \in Indices :
          /\ i < j /\ Passes(i) /\ Passes(j) /\ Area(i) = Area(j) /\ OverlapAbove(i, j)
          /\ Thresholded(i) # Thresholded(j)
          /\ i \in Kept /\ j \notin Kept

-----------------------------------------------------------------------------
(* Color mode properties *)

BfsReturned == modality = "image" /\ bfs_calls > 0

\* the color of pixel p as <<r, g, b>>
Rgb(p) == <<image[p][3], image[p][2], image[p][1]>>

Spread(c) ==
    SetMax({c[1], c[2], c[3]}) - SetMin({c[1], c[2], c[3]})

\* background: grayscale, near-black or near-white
Background(c) ==
    \/ Spread(c) < 75
    \/ (c[1] < 20 /\ c[2] < 20 /\ c[3] < 20)
    \/ (c[1] > 235 /\ c[2] > 235 /\ c[3] > 235)

\* sum of the per-channel absolute differences
Distance(c, d) ==
    SetMax({c[1] - d[1], d[1] - c[1]}) + SetMax({c[2] - d[2], d[2] - c[2]})
        + SetMax({c[3] - d[3], d[3] - c[3]})

\* p precedes q in raster order
RasterBefore(p, q) == p[2] < q[2] \/ (p[2] = q[2] /\ p[1] < q[1])

\* corners of the bounding box of a non-empty set of pixels
Left(S) == SetMin({p[1] : p \in S})
Right(S) == SetMax({p[1] : p \in S})
Top(S) == SetMin({p[2] : p \in S})
Bottom(S) == SetMax({p[2] : p \in S})

\* the returned tuple of a flood fill over the pixels S seeded with color c
Reported(S, c) == <<Left(S), Top(S), Right(S) - Left(S), Bottom(S) - Top(S), c>>

NotWhite == {p \in Pixels : Rgb(p) # White}

\* the raster is white but for one solid rectangle of one non-grayscale color
\* that passes the size filter
OneSolidRectangle ==
    /\ NotWhite # {}
    /\ LET c == Rgb(CHOOSE p \in NotWhite : TRUE)
       IN  /\ ~Background(c)
           /\ \A p \in NotWhite : Rgb(p) = c
    /\ Cardinality(NotWhite) =
           (Right(NotWhite) - Left(NotWhite) + 1) * (Bottom(NotWhite) - Top(NotWhite) + 1)
    /\ Right(NotWhite) - Left(NotWhite) > 10
    /\ Bottom(NotWhite) - Top(NotWhite) > 10

\* C7: for a white raster with one solid rectangle of a non-grayscale color that
\* passes the size filter, exactly one region is returned: its corner is the
\* rectangle's top-left pixel, its extent runs from the rectangle's min corner
\* to its max corner pixel, and its color is the rectangle's color.
C7_SingleRectangle ==
    (BfsReturned /\ OneSolidRectangle) =>
        rectangles = <<Reported(NotWhite, Rgb(CHOOSE p \in NotWhite : TRUE))>>

\* such a rectangle, away from the origin, has been returned
C7_Witness ==
    /\ BfsReturned
    /\ OneSolidRectangle
    /\ Left(NotWhite) > 0 /\ Top(NotWhite) > 0
    /\ Len(rectangles) = 1

\* the flood fills that hold pixel p
FillsOf(p) == {k \in 1 .. Len(regions) : p \in regions[k].pixels}

\* the pixels of the color of p in another block than p: one to five pixels
\* further along the row or the column of p, pixels of another color between
ApartNear(p) ==
    {q \in Pixels :
        /\ Rgb(q) = Rgb(p)
        /\ \/ /\ q[2] = p[2] /\ q[1] - p[1] \in 2 .. 5
              /\ \A m \in p[1] + 1 .. q[1] - 1 : Rgb(<<m, p[2]>>) # Rgb(p)
           \/ /\ q[1] = p[1] /\ q[2] - p[2] \in 2 .. 5
              /\ \A m \in p[2] + 1 .. q[2] - 1 : Rgb(<<p[1], m>>) # Rgb(p)}

\* C8 as stated: two blocks of the same non-grayscale color with a pair of
\* pixels within neighbor_radius of each other are reported as one region whose
\* bounding box covers both.
C8_AsStated ==
    BfsReturned =>
        \A p \in Pixels : ~Background(Rgb(p)) =>
            \A q \in ApartNear(p) :
                \E k \in 1 .. Len(rectangles) :
                    /\ {p[1], q[1]} \subseteq
                           rectangles[k][1] .. rectangles[k][1] + rectangles[k][3]
                    /\ {p[2], q[2]} \subseteq
                           rectangles[k][2] .. rectangles[k][2] + rectangles[k][4]

\* p and q are no further apart than neighbor_radius in x and in y
Near(p, q) == q[1] - p[1] \in -5 .. 5 /\ q[2] - p[2] \in -5 .. 5

\* the pixels of color c outside the set S
SameColorOutside(S, c) == {q \in Pixels \ S : Rgb(q) = c}

\* C8: two pixels of the same non-grayscale color within neighbor_radius of each
\* other lie in one and the same flood fill, never in two; its bounding box
\* covers both, and it is returned as one region when that bounding box passes
\* the size filter and not at all otherwise.
C8_MergedIntoOne ==
    BfsReturned =>
        /\ \A p \in Pixels : ~Background(Rgb(p)) => Cardinality(FillsOf(p)) = 1
        /\ \A k \in 1 .. Len(regions) :
              LET S == regions[k].pixels
                  r == Reported(S, regions[k].target_color)
              IN  /\ \A c \in {Rgb(p) : p \in S} :
                        ~Background(c) =>
                            \A q \in SameColorOutside(S, c) :
                                \A p \in S : Rgb(p) = c => ~Near(p, q)
                  /\ Cardinality({i \in 1 .. Len(rectangles) : rectangles[i] = r})
                         = (IF r[3] > 10 /\ r[4] > 10 THEN 1 ELSE 0)

\* two blocks of one color with four background pixels between them came out
\* as a single returned region
C8_Witness ==
    /\ BfsReturned
    /\ Len(rectangles) = 1
    /\ \E p \in regions[1].pixels :
          /\ p[1] + 5 < width
          /\ Rgb(p) = Red /\ Rgb(<<p[1] + 5, p[2]>>) = Red
          /\ \A m \in 1 .. 4 : Rgb(<<p[1] + m, p[2]>>) = White
          /\ <<p[1] + 5, p[2]>> \in regions[1].pixels

\* C9 as stated: every pixel of a flood fill is closer than 50 to the seed
\* color, the seed being the first pixel of the region in raster order.
C9_AsStated ==
    BfsReturned =>
        \A k \in 1 .. Len(regions) :
            /\ regions[k].target_color = Rgb(regions[k].seed)
            /\ \A p \in regions[k].pixels :
                  /\ Distance(Rgb(p), regions[k].target_color) < 50
                  /\ p = regions[k].seed \/ RasterBefore(regions[k].seed, p)

\* C9: every pixel of a flood fill is closer than 50 to the seed color, however
\* it was reached; the seed is the first pixel of the region in raster order
\* among those that are not background.
C9_FixedAnchor ==
    BfsReturned =>
        \A k \in 1 .. Len(regions) :
            /\ regions[k].target_color = Rgb(regions[k].seed)
            /\ regions[k].seed \in regions[k].pixels
            /\ \A p \in regions[k].pixels :
                  /\ Distance(Rgb(p), regions[k].target_color) < 50
                  /\ (p = regions[k].seed \/ RasterBefore(regions[k].seed, p)
                        \/ Background(Rgb(p)))

\* a fill holds a pixel of another color than its seed, and next to that pixel
\* lies one within 50 of it but not of the seed, which the fill left out
C9_Witness ==
    /\ BfsReturned
    /\ \E k \in 1 .. Len(regions) :
          \E p \in regions[k].pixels :
              /\ Rgb(p) # regions[k].target_color
              /\ \E q \in Pixels \ regions[k].pixels :
                    /\ q[1] - p[1] \in -1 .. 1 /\ q[2] - p[2] \in -1 .. 1
                    /\ Distance(Rgb(q), Rgb(p)) < 50
                    /\ Distance(Rgb(q), regions[k].target_color) >= 50

\* the returned tuples of the fills whose bounding box spans at least n pixels
\* in width and in height, in the order the fills were started
RECURSIVE SpanningAtLeast(_, _)
SpanningAtLeast(n, k) ==
    IF k = 0 THEN <<>>
    ELSE LET S == regions[k].pixels
         IN  IF Right(S) - Left(S) + 1 >= n /\ Bottom(S) - Top(S) + 1 >= n
             THEN Append(SpanningAtLeast(n, k - 1), Reported(S, regions[k].target_color))
             ELSE SpanningAtLeast(n, k - 1)

\* C10 as stated: exactly the regions whose bounding box is 10 pixels or more in
\* width and in height are returned.
C10_AsStated ==
    BfsReturned => rectangles = SpanningAtLeast(10, Len(regions))

\* C10: exactly the regions with max_x - min_x > 10 and max_y - min_y > 10 are
\* returned, that is, those whose bounding box spans 12 pixels or more in width
\* and in height.
C10_SizeFilter ==
    BfsReturned => rectangles = SpanningAtLeast(12, Len(regions))

\* one fill spanning 11 pixels was dropped, or one spanning 12 was returned
C10_Witness ==
    /\ BfsReturned
    /\ Len(regions) = 1
    /\ Right(regions[1].pixels) - Left(regions[1].pixels) + 1 = 12
    /\ Bottom(regions[1].pixels) - Top(regions[1].pixels) + 1 = 12
    /\ Len(rectangles) = 1


Box(r) == (r[1] .. r[1] + r[3]) \X (r[2] .. r[2] + r[4])

\* C12 as stated: the bounding boxes of two returned regions of different
\* colors do not intersect.
C12_AsStated ==
    BfsReturned =>
        \A i, j \in 1 .. Len(rectangles) :
            rectangles[i][5] # rectangles[j][5] =>
                \A p \in Box(rectangles[i]) : p \notin Box(rectangles[j])

\* C12: no pixel lies in two flood fills, so the pixel sets of two returned
\* regions are disjoint, whatever their bounding boxes do.
C12_FillsDisjoint ==
    BfsReturned =>
        \A i, j \in 1 .. Len(regions) :
            i # j => \A p \in regions[i].pixels : p \notin regions[j].pixels

\* two regions of different colors were returned, the second seeded inside
\* the bounding box of the first
C12_Witness ==
    /\ BfsReturned
    /\ Len(rectangles) = 2 /\ Len(regions) = 2
    /\ rectangles[1][5] # rectangles[2][5]
    /\ regions[2].seed \in Box(rectangles[1])
    /\ regions[2].seed \notin regions[1].pixels

-----------------------------------------------------------------------------
(* Extraction properties *)

Extracting == modality = "extract"

\* call c has left its first step, and has returned
Started(c) == pc[c] # "new"
Returned(c) == pc[c] = "done"

\* the pixels of a soft mask above the threshold
On(mask) == {p \in MaskPixels : mask[p] > 5}

\* a soft mask is dropped for its extent under ratio msr
Wide(mask, msr) ==
    \/ (Right(On(mask)) - Left(On(mask)) + 1) * msr[2] > msr[1] * img_width
    \/ (Bottom(On(mask)) - Top(On(mask)) + 1) * msr[2] > msr[1] * img_height

\* the files call c wrote
FilesOf(c) == {p \in DOMAIN debug_files : debug_files[p] = c}

\* C13 as stated: every object returned by a call with filtering enabled has a
\* bounding box narrower than max_size_ratio of the image width and lower than
\* max_size_ratio of the image height, also when the box is the model's.
C13_AsStated ==
    Extracting =>
        \A c \in Calls : Returned(c) =>
            \A i \in 1 .. Len(returned[c]) :
                LET dims == returned[c][i].dimensions
                    msr == requests[c].max_size_ratio
                IN  /\ dims.width[1] * msr[2] < msr[1] * dims.width[2]
                    /\ dims.height[1] * msr[2] < msr[1] * dims.height[2]

\* C14: a call whose bytes do not decode fails with the decode error in its
\* first step: it segments nothing, loads no model, classifies nothing, writes
\* no debug file and returns no objects.
C14_DecodeFails ==
    Extracting =>
        /\ \A c \in Calls :
              (~requests[c].image_bytes.decodable /\ Started(c)) =>
                  /\ pc[c] = "failed"
                  /\ error[c] = "ValueError"
                  /\ frame[c].steps = {"decode"}
                  /\ frame[c].detected_objects = <<>>
                  /\ frame[c].classifications = <<>>
                  /\ FilesOf(c) = {}
                  /\ returned[c] = <<>>
                  /\ frontend_objects[c] = <<>>
        /\ (\A c \in Calls : ~requests[c].image_bytes.decodable) =>
               \A s \in Services : model[s] = "None"

\* a call failed on its bytes while another one classified its objects and
\* wrote its debug files
C14_Witness ==
    /\ Extracting
    /\ \E c, d \in Calls :
          /\ ~requests[c].image_bytes.decodable
          /\ pc[c] = "failed"
          /\ Returned(d)
          /\ returned[d] # <<>>
          /\ FilesOf(d) # {}

\* a threshold below zero
InvalidConfig(req) == req.max_size_ratio[1] < 0 \/ req.overlap_threshold[1] < 0

\* C15 as stated: a call with a configuration value out of range fails before
\* any mask is processed and produces no result.
C15_AsStated ==
    Extracting =>
        \A c \in Calls :
            (InvalidConfig(requests[c]) /\ Started(c)) =>
                /\ pc[c] = "failed"
                /\ "segment" \notin frame[c].steps
                /\ returned[c] = <<>>

\* the bytes decode and no mask survives: there is none, or each is empty after
\* thresholding or dropped by the size filter
NothingSurvives(req) ==
    /\ req.image_bytes.decodable
    /\ \A i \in 1 .. Len(req.image_bytes.masks) :
          \/ On(req.image_bytes.masks[i]) = {}
          \/ Wide(req.image_bytes.masks[i], req.max_size_ratio)

\* C16: when no mask survives, mask filtering returns the empty list and the
\* call returns the empty list as its value, raising nothing, rendering
\* nothing and classifying nothing.
C16_EmptyIsValue ==
    Extracting =>
        \A c \in Calls :
            (NothingSurvives(requests[c]) /\ Started(c)) =>
                /\ Returned(c)
                /\ error[c] = "none"
                /\ frame[c].keep_indices = <<>>
                /\ frame[c].steps = {"decode", "segment"}
                /\ frame[c].classifications = <<>>
                /\ returned[c] = <<>>
                /\ frontend_objects[c] = <<>>

\* calls have returned empty for each of the three reasons: no mask at all, a
\* mask that is empty after thresholding, a mask dropped by the size filter
C16_Witness ==
    /\ Extracting
    /\ \E c \in Calls :
          /\ Returned(c) /\ returned[c] = <<>>
          /\ NothingSurvives(requests[c])
          /\ Len(requests[c].image_bytes.masks) > 0
          /\ \/ On(requests[c].image_bytes.masks[1]) = {}
             \/ requests[c].max_size_ratio = <<1, 2>>

C18_AsStated ==
    Extracting =>
        \A c \in Calls : Returned(c) =>
            /\ "debug" \in frame[c].steps =>
                  \A p \in DebugPaths(frame[c].debug_dir,
                                      Len(frame[c].object_images_and_info)) :
                      p \in FilesOf(c)
            /\ Len(returned[c]) = Len(frame[c].keep_indices)
            /\ \A i \in 1 .. Len(returned[c]) :
                  frame[c].keep_indices[i] + 1 \in 1 .. Len(requests[c].image_bytes.masks)

\* C19 as stated: the objects a frontend service returns have pairwise distinct
\* ids, and each carries the position, dimensions and classified type of its
\* region.
C19_AsStated ==
    Extracting =>
        \A c \in Calls :
            (Returned(c) /\ requests[c].service \in {"furniture", "minglun"}) =>
                LET out == frontend_objects[c]
                IN  /\ Len(out) = Len(frame[c].detected_objects)
                    /\ \A i, j \in 1 .. Len(out) : i # j => out[i].id # out[j].id
                    /\ \A i \in 1 .. Len(out) :
                          LET obj == frame[c].detected_objects[i]
                          IN  /\ out[i].dimensions = obj.dimensions_normalized
                              /\ out[i].position.x =
                                     <<obj.bbox_pixels.x1 + obj.bbox_pixels.x2, 2 * img_width>>
                              /\ out[i].position.y =
                                     <<obj.bbox_pixels.y1 + obj.bbox_pixels.y2, 2 * img_height>>
                              /\ out[i].type = frame[c].classifications[i].furniture_type

-----------------------------------------------------------------------------
(* /ai/llm properties *)

\* C20 as stated: a request with neither prompt nor messages, or with both, is
\* answered with status 400 without a call to the AI service.
C20_AsStated ==
    (modality = "llm" /\ llm_pc = "responded") =>
        ((Truthy(llm_request.prompt) <=> Truthy(llm_request.messages)) =>
            llm_status = 400 /\ ai_calls = 0)

-----------------------------------------------------------------------------
(* Further mask mode and extraction properties *)

\* C21 as stated: the mask each detected object is cropped with is the mask at
\* the object's original mask_index, also when filtering removed a mask with a
\* lower index.
C21_AsStated ==
    Extracting =>
        \A c \in Calls :
            \A i \in 1 .. Len(frame[c].object_images_and_info) :
                frame[c].object_images_and_info[i].crop.mask =
                    On(requests[c].image_bytes.masks[
                           frame[c].object_images_and_info[i].obj.mask_index + 1])

\* C22: a mask that passes the size check is left out exactly when a returned
\* mask processed before it (of greater area, or of equal area and lower
\* index) overlaps it above overlap_threshold; a mask that was left out
\* suppresses nothing, so a mask overlapped only by masks left out is returned.
C22_SuppressedByKeptOnly ==
    FilterReturned =>
        \A j \in Indices : Passes(j) =>
            (j \notin Kept <=>
                \E i \in Kept : i # j /\ Before(i, j) /\ OverlapAbove(i, j))

\* a returned mask is overlapped above the threshold by a mask processed before
\* it that was itself suppressed
C22_Witness ==
    /\ FilterReturned
    /\ \E i, j \in Indices :
          /\ Passes(i) /\ Passes(j) /\ i # j
          /\ Before(i, j) /\ OverlapAbove(i, j)
          /\ i \notin Kept /\ j \in Kept

\* C23: the returned list holds original indices of masks given, in strictly
\* ascending order (so none twice), and none of a mask without a pixel above
\* the threshold.
C23_ValidAscending ==
    FilterReturned =>
        \A k \in 1 .. Len(filter_result) :
            /\ filter_result[k] \in Indices
            /\ Area(filter_result[k]) > 0
            /\ k < Len(filter_result) => filter_result[k] < filter_result[k + 1]

\* several masks were returned that were processed in another order than that
\* of their indices, from a list that also held an empty mask
C23_Witness ==
    /\ FilterReturned
    /\ Len(filter_result) >= 2
    /\ to_keep # filter_result
    /\ \E i \in Indices : Area(i) = 0

\* C24: whatever the order in which the classification tasks complete, there
\* is one entry per object; the entry of a completed task at position i has
\* object_number i (counting from 1), is "other" with confidence "error" when
\* that task failed, and is the parsed reply otherwise, whatever became of the
\* other tasks; when the gather has returned no entry is pending.
C24_FanOut ==
    Extracting =>
        \A c \in Calls :
            LET entries == frame[c].classifications
            IN  /\ pc[c] \in {"classify", "match"} =>
                      Len(entries) = Len(frame[c].object_images_and_info)
                /\ pc[c] \in {"match", "done"} =>
                      \A i \in 1 .. Len(entries) : entries[i] # Pending
                /\ \A i \in 1 .. Len(entries) :
                      entries[i] # Pending =>
                          /\ entries[i].object_number = i
                          /\ IF <<"classify", i>> \in frame[c].failed
                             THEN /\ entries[i].furniture_type = "other"
                                  /\ entries[i].confidence = "error"
                             ELSE /\ entries[i].furniture_type = "chair"
                                  /\ entries[i].confidence = "high"

\* the task of the second object has failed while that of the first is still
\* running
C24_Witness ==
    /\ Extracting
    /\ \E c \in Calls :
          /\ pc[c] = "classify"
          /\ Len(frame[c].classifications) = 2
          /\ frame[c].classifications[1] = Pending
          /\ frame[c].classifications[2] # Pending
          /\ <<"classify", 2>> \in frame[c].failed


-----------------------------------------------------------------------------
(* Flood fill, matching and project store properties *)

Filling == modality = "fill"

\* C26: over the whole scan no pixel is put on a queue twice, the pixels put on
\* a queue are those marked visited, no pixel is popped by two fills, and on
\* every image each breadth-first search empties its queue and the scan ends.
C26_Terminates ==
    /\ [](Filling =>
            /\ \A p \in Pixels :
                  /\ appended[p] <= 1
                  /\ appended[p] = 1 <=> p \in visited
                  /\ Cardinality(region_of[p]) <= 1
            /\ \A k, l \in 1 .. Len(queue) : queue[k] = queue[l] => k = l)
    /\ (Filling /\ fill_pc = "bfs") ~> (fill_pc = "bfs" /\ queue = <<>>)
    /\ Filling ~> (fill_pc = "done")

\* the scan has ended after two fills or more, the second of which popped a
\* pixel inside the rectangle returned first
C26_Witness ==
    /\ Filling
    /\ fill_pc = "done"
    /\ fills >= 2
    /\ Len(rectangles) >= 1
    /\ \E q \in Pixels :
          /\ region_of[q] = {2}
          /\ rectangles[1][1] <= q[1] /\ q[1] <= rectangles[1][1] + rectangles[1][3]
          /\ rectangles[1][2] <= q[2] /\ q[2] <= rectangles[1][2] + rectangles[1][4]


Matching == modality = "match"

LoadedImages ==
    Cardinality({k \in DOMAIN match_call.entries : match_call.entries[k] = "image"})

\* C25 as stated: the call never raises; what it returns is an integer that is
\* 0 when no product image was loaded and otherwise at least 0 and below the
\* number of product images loaded; and it is 0 when the API key or the
\* furniture directory is missing or the answer is an error or out of range.
C25_AsStated ==
    (Matching /\ match_pc \notin {"called", "awaiting"}) =>
        /\ match_pc = "returned"
        /\ match_result[2] = 1
        /\ 0 <= match_result[1]
        /\ match_result[1] < Greatest(1, LoadedImages)
        /\ (\/ ~match_call.api_key
            \/ match_call.furniture_dir # "dir"
            \/ LoadedImages = 0
            \/ match_answer.kind \in {"error", "not_a_number"}
            \/ match_answer.best_match_index[1] < 0
            \/ match_answer.best_match_index[1] >=
                   LoadedImages * match_answer.best_match_index[2])
           => match_result = <<0, 1>>

Storing == modality = "store"

Patched == response.endpoint \in {"floorplan/move-object", "floorplan/change-model"}

\* C29: move-object and change-model on a project with a floorplan respond 200;
\* afterwards the floorplan has the same number of objects, the first object
\* with the requested object_id differs from what it was in its position
\* (respectively its model_id) at most, which is the one requested, every
\* other object is what it was (all of them when no object has the id), and
\* nothing else in PROJECTS has changed.
C29_OneObjectChanged ==
    (/\ Storing
     /\ Patched
     /\ response.project_id \in DOMAIN PROJECTS_before
     /\ PROJECTS_before[response.project_id].floorplan_data # NoData) =>
        LET id == response.project_id
            old == PROJECTS_before[id].floorplan_data.objects
            new == PROJECTS[id].floorplan_data.objects
            first(k) ==
                /\ old[k].object_id = response.object_id
                /\ \A j \in 1 .. k - 1 : old[j].object_id # response.object_id
        IN  /\ response.status = 200
            /\ Len(new) = Len(old)
            /\ [PROJECTS EXCEPT ![id].floorplan_data.objects = old] = PROJECTS_before
            /\ \A k \in 1 .. Len(old) :
                  IF ~first(k) THEN new[k] = old[k]
                  ELSE IF response.endpoint = "floorplan/move-object"
                  THEN /\ new[k].position \in Positions
                       /\ new[k] = [old[k] EXCEPT !.position = new[k].position]
                  ELSE /\ new[k].model_id \in ModelIds
                       /\ new[k] = [old[k] EXCEPT !.model_id = new[k].model_id]

\* move-object has moved the first of two objects with the requested id and
\* left the second where it was
C29_Witness ==
    /\ Storing
    /\ response.endpoint = "floorplan/move-object"
    /\ response.status = 200
    /\ LET old == PROJECTS_before[response.project_id].floorplan_data.objects
           new == PROJECTS[response.project_id].floorplan_data.objects
       IN  \E k, j \in 1 .. Len(old) :
               /\ k < j
               /\ old[k].object_id = response.object_id
               /\ old[j].object_id = response.object_id
               /\ new[k].position # old[k].position
               /\ new[j].position = old[j].position
               /\ new[j].position \notin Positions

=============================================================================
